---- MODULE Spec2Model ----
(***************************************************************************)
(* Signal lifecycle and risk engine of the trading signal bot.             *)
(*                                                                         *)
(* Prices are integers in units of 0.0001 (the scale of the repository's   *)
(* decimal(10,4) columns), P&L is an integer in units of 0.01 % (the two   *)
(* decimals of toFixed(2)), percentages of the risk manager are in units   *)
(* of 0.001 %, and the clock counts minutes.                               *)
(*                                                                         *)
(* Every asynchronous function is a task that advances from one awaited    *)
(* repository or network call to the next: the code between two awaits is  *)
(* one atomic step (JavaScript runs it to completion), and the effect of   *)
(* an awaited repository call takes place in the step that resumes after   *)
(* it.                                                                     *)
(***************************************************************************)
EXTENDS Integers, Sequences, FiniteSets, TLC

VARIABLES
    now,              \* wall clock, minutes
    signals,          \* repository table "signals": sequence indexed by id
    signalHistory,    \* repository table "signal_history"
    marketData,       \* repository table "market_data": latest price per symbol
    risk,             \* RiskManagementService private counters
    trackedSignals,   \* SignalTracker.trackedSignals: Map keys in insertion order
    isTracking,       \* SignalTracker.isTracking
    tickHandlers,     \* SignalTracker.processTickData invocations in flight
    loadTask,         \* SignalTracker.loadActiveSignals invocation in flight
    routeTasks,       \* routes.ts tick callbacks (checkActiveSignals) in flight
    consTracked,      \* ConsolidatedSignalTracker.trackedSignals
    consRunning,      \* ConsolidatedSignalTracker.isRunning
    consTask,         \* ConsolidatedSignalTracker.checkSignals invocation in flight
    isGenerating,     \* AutomatedSignalGenerator.isGenerating
    genTasks,         \* generation cycles in flight, with the creation they are in
    isMonitoring,     \* TacticalTradingAssistant.isRunning
    healthCheckInterval, \* TacticalTradingAssistant: the 60-second timer is set
    monitoredSignals, \* TacticalTradingAssistant.monitoredSignals
    lastAlertStates,  \* TacticalTradingAssistant.lastAlertStates
    healthTasks,      \* performHealthChecks invocations in flight
    alerts,           \* alerts handed to generateAlert, in order
    startTasks,       \* startMonitoring invocations awaiting loadActiveSignals
    timers,           \* setInterval timers of the assistant that were not cleared
    protection,       \* a recorded peak, a price and the stops computed from them
    validation,       \* a candidate handed to the SignalManager and what became of it
    analysis,         \* indicator readings of one symbol and what the generator made of them
    clustering,       \* a candidate handed to the classifier and what was stored for it
    ghost             \* bookkeeping of who did what, read only by properties

vars ==
    << now, signals, signalHistory, marketData, risk, trackedSignals, isTracking,
       tickHandlers, loadTask, routeTasks, consTracked, consRunning, consTask,
       isGenerating, genTasks, isMonitoring, healthCheckInterval, monitoredSignals,
       lastAlertStates, healthTasks, alerts, startTasks, timers, protection, validation,
       analysis, clustering, ghost >>

consVars == << consTracked, consRunning, consTask >>

genVars == << isGenerating, genTasks >>

startVars == << startTasks, timers >>

calcVars == << protection, validation, analysis, clustering >>

assistantVars ==
    << isMonitoring, healthCheckInterval, monitoredSignals, lastAlertStates, healthTasks,
       alerts, startVars, calcVars >>

repoVars == << signals, signalHistory, marketData >>

trackerVars == << trackedSignals, isTracking, tickHandlers, loadTask >>

(***************************************************************************)
(* Bounds of the model                                                     *)
(***************************************************************************)
MaxSignals == 3
MaxHandlers == 2
MaxTime == 7
MaxAlerts == 2
MaxTicks == 3
MaxLoads == 1
MaxManual == 1
MaxConsTime == 360
MaxCycles == 3
MaxCloseTime == 2
MaxCloseTicks == 1
MaxStarts == 2
MaxNewCycles == 2

Symbols == {"V10"}
SignalTypes == {"BUY", "SELL"}
LifecyclePrices == {1000000, 1030000, 1040000}
ManualPrices == {1000000, 1030000, 1300000}
AlertPrices == {1000000, 1030000}
Momenta == {50}
ConsPrices == {980000, 1000000, 1040000}
GenConfidences == {80, 85, 90}
GenEntries == {1000000, 1020000}

NoPrice == 0
NoPnl == -999999
NoTime == -1

(***************************************************************************)
(* Arithmetic helpers                                                      *)
(***************************************************************************)
Abs(x) == IF x < 0 THEN -x ELSE x

Max(a, b) == IF a >= b THEN a ELSE b

Min(a, b) == IF a <= b THEN a ELSE b

\* a / b rounded to the nearest integer, halves away from zero (b > 0)
RoundDiv(a, b) ==
    IF a >= 0 THEN (2 * a + b) \div (2 * b)
              ELSE -((2 * (-a) + b) \div (2 * b))

\* price * num / den rounded to the price grid, for den a multiple of 1000,
\* computed in two parts to stay within 32-bit integers
ScaleBy(price, num, den) ==
    RoundDiv((price \div 1000) * num, den \div 1000) + RoundDiv((price % 1000) * num, den)

\* price * bp / 10000
ScaleBp(price, bp) == ScaleBy(price, bp, 10000)

RECURSIVE DescSeq(_)
\* the ids of S, highest first
DescSeq(S) ==
    IF S = {} THEN << >>
    ELSE LET m == CHOOSE x \in S : \A y \in S : y <= x
         IN  << m >> \o DescSeq(S \ {m})

RemoveAt(seq, k) == [i \in 1..(Len(seq) - 1) |-> IF i < k THEN seq[i] ELSE seq[i + 1]]

IndexOf(seq, x) ==
    IF \E k \in 1..Len(seq) : seq[k] = x
    THEN CHOOSE k \in 1..Len(seq) : seq[k] = x
    ELSE 0

SeqToSet(seq) == {seq[k] : k \in 1..Len(seq)}

(***************************************************************************)
(* Repository (storage.ts) with CRUD semantics                             *)
(***************************************************************************)
\* a row of table "signals" as createSignal stores it
NewSignal(sym, type, action, entry, tp, sl, conf, prio, expiry, source) ==
    [symbol |-> sym, signalType |-> type, action |-> action,
     entryPrice |-> entry, takeProfitPrice |-> tp, stopLossPrice |-> sl,
     confidence |-> conf, priority |-> prio, expiryTime |-> expiry,
     source |-> source,
     isActive |-> TRUE, result |-> "NONE", exitPrice |-> NoPrice, pnl |-> NoPnl]

\* storage.getActiveSignals: where isActive, newest first
GetActiveSignals == DescSeq({i \in 1..Len(signals) : signals[i].isActive})

\* storage.createSignalHistory: one SignalOutcome row.  signalId names the
\* signal the closer was closing when it wrote the row.
HistoryEntry(id, result, exit, pnl, by) ==
    [signalId |-> id, result |-> result, exitPrice |-> exit, pnl |-> pnl, by |-> by]

(***************************************************************************)
(* RiskManagementService (riskManagement.ts)                               *)
(***************************************************************************)
maxDrawdown == 15

InitRisk ==
    [consecutiveLosses |-> 0, totalTrades |-> 0, winningTrades |-> 0,
     totalPnL |-> 0, currentDrawdown |-> 0, maxDrawdownReached |-> 0]

UpdateTradeResult(r, pnl, isWin) ==
    LET dd == IF pnl < 0 THEN r.currentDrawdown + Abs(pnl)
                         ELSE Max(0, r.currentDrawdown - pnl)
    IN  [consecutiveLosses |-> IF isWin THEN 0 ELSE r.consecutiveLosses + 1,
         totalTrades |-> r.totalTrades + 1,
         winningTrades |-> IF isWin THEN r.winningTrades + 1 ELSE r.winningTrades,
         totalPnL |-> r.totalPnL + pnl,
         currentDrawdown |-> dd,
         maxDrawdownReached |-> IF pnl < 0 THEN Max(r.maxDrawdownReached, dd)
                                           ELSE r.maxDrawdownReached]

\* (maxDrawdownReached / |totalPnL|) * 100 > maxDrawdown in IEEE arithmetic:
\* 0/0 is NaN (compares false), x/0 is Infinity for x > 0
ShouldStopTrading(r) ==
    IF r.totalPnL = 0
    THEN r.maxDrawdownReached > 0
    ELSE r.maxDrawdownReached * 100 > maxDrawdown * Abs(r.totalPnL)

(***************************************************************************)
(* Price-driven closure decisions                                          *)
(***************************************************************************)
\* ((exit - entry) / entry) * 100 rounded as toFixed(2), in units of 0.01 %
\* (entry prices are multiples of 10; the factor is split to stay within
\* 32-bit integers)
PnlPercent(type, entry, exit) ==
    IF type = "BUY" THEN RoundDiv((exit - entry) * 1000, entry \div 10)
    ELSE IF type = "SELL" THEN RoundDiv((entry - exit) * 1000, entry \div 10)
    ELSE 0

\* SignalTracker.checkSignalStatus: a null level is never hit
TrackerCheck(sig, price) ==
    IF sig.signalType = "BUY"
    THEN IF sig.takeProfitPrice # NoPrice /\ price >= sig.takeProfitPrice THEN "WIN"
         ELSE IF sig.stopLossPrice # NoPrice /\ price <= sig.stopLossPrice THEN "LOSS"
         ELSE "NONE"
    ELSE IF sig.signalType = "SELL"
    THEN IF sig.takeProfitPrice # NoPrice /\ price <= sig.takeProfitPrice THEN "WIN"
         ELSE IF sig.stopLossPrice # NoPrice /\ price >= sig.stopLossPrice THEN "LOSS"
         ELSE "NONE"
    ELSE "NONE"

\* a decision that misses a price exactly on a level
RouteCheckStrict(sig, price) ==
    IF sig.signalType = "BUY"
    THEN IF price > sig.takeProfitPrice THEN "WIN"
         ELSE IF price < sig.stopLossPrice THEN "LOSS"
         ELSE "NONE"
    ELSE IF sig.signalType = "SELL"
    THEN IF price < sig.takeProfitPrice THEN "WIN"
         ELSE IF price > sig.stopLossPrice THEN "LOSS"
         ELSE "NONE"
    ELSE "NONE"

\* routes.ts checkActiveSignals: the decision for one signal of the snapshot
RouteCheck(sig, price) ==
    IF sig.signalType = "BUY"
    THEN IF price >= sig.takeProfitPrice THEN "WIN"
         ELSE IF price <= sig.stopLossPrice THEN "LOSS"
         ELSE "NONE"
    ELSE IF sig.signalType = "SELL"
    THEN IF price <= sig.takeProfitPrice THEN "WIN"
         ELSE IF price >= sig.stopLossPrice THEN "LOSS"
         ELSE "NONE"
    ELSE "NONE"

(***************************************************************************)
(* TechnicalAnalysisService: trade levels (percentages in units of 0.01 %) *)
(***************************************************************************)
GenerateTradeLevels(price, direction, tpPercent, slPercent) ==
    IF direction = "BUY"
    THEN [takeProfit |-> ScaleBp(price, 10000 + tpPercent),
          stopLoss |-> ScaleBp(price, 10000 - slPercent)]
    ELSE [takeProfit |-> ScaleBp(price, 10000 - tpPercent),
          stopLoss |-> ScaleBp(price, 10000 + slPercent)]

CalculateTakeProfitStopLoss(entryPrice, signalType, confidence, support, resistance, volatility) ==
    LET tp0 == IF confidence >= 85 THEN 250
               ELSE IF confidence >= 80 THEN 200
               ELSE IF confidence >= 75 THEN 180 ELSE 150
        sl0 == IF confidence >= 75 THEN 150 ELSE 200
        tpPercent == IF volatility = "HIGH" THEN (tp0 * 11) \div 10 ELSE tp0
        slPercent == IF volatility = "HIGH" THEN (sl0 * 11) \div 10 ELSE sl0
        levels == GenerateTradeLevels(entryPrice, signalType, tpPercent, slPercent)
        supportStopLoss == ScaleBp(support, 9950)
        resistanceTakeProfit == ScaleBp(resistance, 9950)
        resistanceStopLoss == ScaleBp(resistance, 10050)
        supportTakeProfit == ScaleBp(support, 10050)
    IN  IF signalType = "BUY"
        THEN [stopLossPrice |->
                 IF support > 0 /\ support < entryPrice /\ supportStopLoss > levels.stopLoss
                 THEN supportStopLoss ELSE levels.stopLoss,
              takeProfitPrice |->
                 IF resistance > entryPrice /\ resistanceTakeProfit < levels.takeProfit
                 THEN resistanceTakeProfit ELSE levels.takeProfit]
        ELSE [stopLossPrice |->
                 IF resistance > 0 /\ resistance > entryPrice /\ resistanceStopLoss < levels.stopLoss
                 THEN resistanceStopLoss ELSE levels.stopLoss,
              takeProfitPrice |->
                 IF support < entryPrice /\ support > 0 /\ supportTakeProfit > levels.takeProfit
                 THEN supportTakeProfit ELSE levels.takeProfit]

(***************************************************************************)
(* Tick feed and the in-flight tasks it starts                             *)
(***************************************************************************)
MapDerivSymbolToDisplay(derivSymbol) ==
    IF derivSymbol = "R_10" THEN "V10"
    ELSE IF derivSymbol = "R_25" THEN "V25"
    ELSE IF derivSymbol = "R_75" THEN "V75"
    ELSE derivSymbol

IdleHandler ==
    [stage |-> "idle", symbol |-> "", price |-> NoPrice, pos |-> 0, cur |-> 0,
     result |-> "NONE", afterStop |-> FALSE]

IdleRoute ==
    [stage |-> "idle", symbol |-> "", price |-> NoPrice, todo |-> << >>, cur |-> 0,
     result |-> "NONE"]

IdleLoad == [stage |-> "idle", snapshot |-> << >>, afterStop |-> FALSE]

IdleCons ==
    [stage |-> "idle", todo |-> << >>, price |-> NoPrice, cur |-> 0, status |-> "ACTIVE"]

NoCandidate ==
    [signalType |-> "HOLD", confidence |-> 0, entryPrice |-> NoPrice, priority |-> 0,
     takeProfitPrice |-> NoPrice, stopLossPrice |-> NoPrice]

IdleGen ==
    [stage |-> "idle", viaRetry |-> FALSE, attempt |-> 0, cand |-> NoCandidate,
     conflicts |-> << >>, todo |-> << >>]

\* lastAlertStates.get of a signal that has no entry
NoAlertState ==
    [defined |-> FALSE, status |-> "", healthScore |-> 0, lastAlertTime |-> NoTime,
     lastTelegramAlert |-> NoTime, peakProfit |-> 0, lastPrice |-> NoPrice,
     lastProfitWarning |-> NoTime]

\* nothing asked of the protection calculators
NoRecommendation ==
    [shouldProtect |-> FALSE, recommendedStopLoss |-> NoPrice, profitTier |-> "",
     currentProfitPercent |-> 0, peakProfitPercent |-> 0, drawdownFromPeak |-> 0]

NoProtection ==
    [recorded |-> NoPnl, currentPrice |-> NoPrice, rec |-> NoRecommendation,
     retestStop |-> NoPrice]

\* no candidate has been handed over
NoValidation ==
    [asked |-> FALSE, isValid |-> FALSE,
     candidate |-> [signalType |-> "", entryPrice |-> NoPrice, takeProfitPrice |-> NoPrice,
                    stopLossPrice |-> NoPrice, confidence |-> 0]]

\* the generator has analysed nothing
NoAnalysis == [stage |-> "none"]

\* the classifier has been asked nothing
NoClustering == [stage |-> "none"]

NoHealth == [status |-> "", healthScore |-> 0, currentPrice |-> NoPrice]

IdleHealth ==
    [stage |-> "idle", todo |-> << >>, cur |-> 0, health |-> NoHealth,
     lastState |-> NoAlertState, at |-> NoTime, alertType |-> "NONE", peakProfit |-> 0]

\* lowest idle slot of a task table, 0 when all are busy
FreeSlot(tasks) ==
    IF \E i \in DOMAIN tasks : tasks[i].stage = "idle"
    THEN CHOOSE i \in DOMAIN tasks :
            /\ tasks[i].stage = "idle"
            /\ \A j \in DOMAIN tasks : tasks[j].stage = "idle" => i <= j
    ELSE 0

\* no closure by any of the three closers is in flight
ClosersIdle ==
    /\ \A i \in DOMAIN tickHandlers : tickHandlers[i].stage = "idle"
    /\ \A i \in DOMAIN routeTasks : routeTasks[i].stage = "idle"
    /\ consTask.stage = "idle"

\* processTickData's loop over the live Map: index of the next tracked entry
\* after position pos whose snapshot is on the symbol and is hit by the price
NextHit(tr, pos, sym, price) ==
    LET C == {k \in (pos + 1)..Len(tr) :
                 /\ signals[tr[k]].symbol = sym
                 /\ TrackerCheck(signals[tr[k]], price) # "NONE"}
    IN  IF C = {} THEN 0 ELSE CHOOSE k \in C : \A j \in C : k <= j

\* checkActiveSignals' filter over the rows returned by getActiveSignals
SymbolSignals(sym) ==
    SelectSeq(GetActiveSignals,
              LAMBDA id : /\ signals[id].symbol = sym
                          /\ signals[id].takeProfitPrice # NoPrice
                          /\ signals[id].stopLossPrice # NoPrice)

\* checkActiveSignals' loop: index of the first row of todo hit by the price
FirstHit(todo, price) ==
    LET C == {k \in 1..Len(todo) : RouteCheck(signals[todo[k]], price) # "NONE"}
    IN  IF C = {} THEN 0 ELSE CHOOSE k \in C : \A j \in C : k <= j

(***************************************************************************)
(* Initial state: empty repository, services constructed.  The constructor *)
(* of SignalTracker has started its first loadActiveSignals.               *)
(***************************************************************************)
\* everything but the ConsolidatedSignalTracker
InitCore ==
    /\ now = 0
    /\ signalHistory = << >>
    /\ risk = InitRisk
    /\ trackedSignals = << >>
    /\ isTracking = TRUE
    /\ tickHandlers = [i \in 1..MaxHandlers |-> IdleHandler]
    /\ loadTask = [IdleLoad EXCEPT !.stage = "read"]
    /\ routeTasks = [i \in 1..MaxHandlers |-> IdleRoute]
    /\ isGenerating = FALSE
    /\ genTasks = [i \in 1..MaxHandlers |-> IdleGen]
    /\ isMonitoring = TRUE
    /\ healthCheckInterval = FALSE
    /\ startTasks = 1
    /\ timers = 0
    /\ monitoredSignals = << >>
    /\ lastAlertStates = << >>
    /\ healthTasks = [i \in 1..MaxHandlers |-> IdleHealth]
    /\ alerts = << >>
    /\ ghost = [winLossClosures |-> 0, mutatedAfterStop |-> FALSE, ticks |-> 0, loads |-> 0,
                cycles |-> 0, rejected |-> FALSE, thrown |-> FALSE, losingStreak |-> 0,
                starts |-> 0, sinkFailure |-> "none", exhausted |-> FALSE]

\* the consolidated tracker has started and found nothing to load
InitServices ==
    /\ InitCore
    /\ consTracked = << >>
    /\ consRunning = TRUE
    /\ consTask = IdleCons

Init ==
    /\ signals = << >>
    /\ marketData = [s \in Symbols |-> NoPrice]
    /\ protection = NoProtection
    /\ validation = NoValidation
    /\ analysis = NoAnalysis
    /\ clustering = NoClustering
    /\ InitServices

(***************************************************************************)
(* POST /api/signals/manual                                                *)
(***************************************************************************)
ManualSignal(symbol, signalType, confidence) ==
    LET currentPrice == marketData[symbol]
        tpSl == CalculateTakeProfitStopLoss(currentPrice, signalType, confidence,
                    ScaleBp(currentPrice, 9800), ScaleBp(currentPrice, 10200), "MEDIUM")
    IN  /\ Len(signals) < MaxSignals
        /\ currentPrice # NoPrice
        /\ signals' = Append(signals,
               NewSignal(symbol, signalType, "", currentPrice, tpSl.takeProfitPrice,
                         tpSl.stopLossPrice, confidence, 3, NoTime, "MANUAL"))
        /\ UNCHANGED << now, signalHistory, marketData, risk, trackerVars, routeTasks, ghost,
                        consVars, genVars, assistantVars >>

(***************************************************************************)
(* A tick from the feed: derivApi.handleMessage calls every subscriber     *)
(* synchronously.  SignalTracker.processTickData runs to its first await   *)
(* (the updateSignal of the first hit, if any); the routes.ts callback     *)
(* runs to its await of insertMarketData.                                  *)
(***************************************************************************)
DeliverTick(derivSymbol, quote) ==
    LET sym == MapDerivSymbolToDisplay(derivSymbol)
        k == NextHit(trackedSignals, 0, sym, quote)
        th == FreeSlot(tickHandlers)
        rt == FreeSlot(routeTasks)
    IN  /\ ghost.ticks < MaxTicks
        /\ rt # 0
        /\ k # 0 => th # 0
        /\ tickHandlers' =
              IF k = 0 THEN tickHandlers
              ELSE [tickHandlers EXCEPT ![th] =
                       [stage |-> "update", symbol |-> sym, price |-> quote, pos |-> k,
                        cur |-> trackedSignals[k],
                        result |-> TrackerCheck(signals[trackedSignals[k]], quote),
                        afterStop |-> ~isTracking]]
        /\ routeTasks' = [routeTasks EXCEPT ![rt] =
                             [IdleRoute EXCEPT !.stage = "insert", !.symbol = sym,
                                               !.price = quote]]
        /\ ghost' = [ghost EXCEPT !.ticks = @ + 1]
        /\ UNCHANGED << now, repoVars, risk, trackedSignals, isTracking, loadTask,
                        consVars, genVars, assistantVars >>

(***************************************************************************)
(* SignalTracker.closeSignal                                               *)
(***************************************************************************)
\* resumes after updateSignal: the row is closed, the entry leaves the Map,
\* createSignalHistory is issued
TrackerClosed(i) ==
    LET h == tickHandlers[i]
        sig == signals[h.cur]
        idx == IndexOf(trackedSignals, h.cur)
        shift(p) == IF idx # 0 /\ idx <= p THEN p - 1 ELSE p
    IN  /\ h.stage = "update"
        /\ signals' = [signals EXCEPT ![h.cur] =
               [@ EXCEPT !.isActive = FALSE, !.result = h.result,
                         !.pnl = PnlPercent(sig.signalType, sig.entryPrice, h.price),
                         !.exitPrice = h.price]]
        /\ trackedSignals' = IF idx = 0 THEN trackedSignals ELSE RemoveAt(trackedSignals, idx)
        /\ tickHandlers' = [j \in DOMAIN tickHandlers |->
               IF j = i THEN [h EXCEPT !.stage = "history", !.pos = shift(h.pos)]
               ELSE [tickHandlers[j] EXCEPT !.pos = shift(@)]]
        /\ ghost' = [ghost EXCEPT !.winLossClosures = @ + 1,
                                  !.losingStreak = IF h.result = "WIN" THEN 0 ELSE @ + 1,
                                  !.mutatedAfterStop = @ \/ h.afterStop]
        /\ UNCHANGED << now, signalHistory, marketData, risk, isTracking, loadTask, routeTasks,
                        consVars, genVars, assistantVars >>

\* resumes after createSignalHistory and the notification: the loop over the
\* Map goes on to the next hit
ClosureNotified(i, delivered) ==
    LET h == tickHandlers[i]
        sig == signals[h.cur]
        k == NextHit(trackedSignals, h.pos, h.symbol, h.price)
    IN  /\ h.stage = "history"
        /\ signalHistory' = Append(signalHistory,
               HistoryEntry(h.cur, h.result, h.price,
                            PnlPercent(sig.signalType, sig.entryPrice, h.price), "tracker"))
        /\ tickHandlers' = [tickHandlers EXCEPT ![i] =
               IF k = 0 THEN IdleHandler
               ELSE [h EXCEPT !.stage = "update", !.pos = k, !.cur = trackedSignals[k],
                              !.result = TrackerCheck(signals[trackedSignals[k]], h.price)]]
        /\ ghost' = [ghost EXCEPT !.sinkFailure = IF delivered THEN "none" ELSE "closure"]
        /\ UNCHANGED << now, signals, marketData, risk, trackedSignals, isTracking,
                        loadTask, routeTasks,
                        consVars, genVars, assistantVars >>

\* the same with the notification delivered
TrackerRecorded(i) == ClosureNotified(i, TRUE)

(***************************************************************************)
(* routes.ts tick callback: insertMarketData, then checkActiveSignals      *)
(***************************************************************************)
\* next row of the snapshot that the price closes, or the end of the loop
RouteContinue(r, todo) ==
    LET k == FirstHit(todo, r.price)
    IN  IF k = 0 THEN IdleRoute
        ELSE [r EXCEPT !.stage = "update", !.cur = todo[k],
                       !.result = RouteCheck(signals[todo[k]], r.price),
                       !.todo = SubSeq(todo, k + 1, Len(todo))]

\* resumes after insertMarketData and getActiveSignals: filters the rows and
\* runs the loop to the updateSignal of the first hit
RouteScan(i) ==
    LET r == routeTasks[i]
    IN  /\ r.stage = "insert"
        /\ marketData' = [marketData EXCEPT ![r.symbol] = r.price]
        /\ routeTasks' = [routeTasks EXCEPT ![i] = RouteContinue(r, SymbolSignals(r.symbol))]
        /\ UNCHANGED << now, signals, signalHistory, risk, trackerVars, ghost,
                        consVars, genVars, assistantVars >>

\* resumes after updateSignal: the row is closed, the risk counters are
\* updated, the notification is sent and the loop goes on
RouteClosed(i) ==
    LET r == routeTasks[i]
        sig == signals[r.cur]
        pnl == PnlPercent(sig.signalType, sig.entryPrice, r.price)
    IN  /\ r.stage = "update"
        /\ signals' = [signals EXCEPT ![r.cur] =
               [@ EXCEPT !.isActive = FALSE, !.result = r.result, !.pnl = pnl,
                         !.exitPrice = r.price]]
        /\ risk' = UpdateTradeResult(risk, pnl, r.result = "WIN")
        /\ routeTasks' = [routeTasks EXCEPT ![i] = RouteContinue(r, r.todo)]
        /\ ghost' = [ghost EXCEPT !.winLossClosures = @ + 1,
                                  !.losingStreak = IF r.result = "WIN" THEN 0 ELSE @ + 1]
        /\ UNCHANGED << now, signalHistory, marketData, trackerVars,
                        consVars, genVars, assistantVars >>

(***************************************************************************)
(* SignalTracker.loadActiveSignals, started by the 5-minute timer          *)
(***************************************************************************)
LoadStart ==
    /\ ghost.loads < MaxLoads
    /\ loadTask.stage = "idle"
    /\ loadTask' = [IdleLoad EXCEPT !.stage = "read", !.afterStop = ~isTracking]
    /\ ghost' = [ghost EXCEPT !.loads = @ + 1]
    /\ UNCHANGED << now, repoVars, risk, trackedSignals, isTracking, tickHandlers,
                    routeTasks, consVars, genVars, assistantVars >>

\* the repository answers getActiveSignals
LoadRead ==
    /\ loadTask.stage = "read"
    /\ loadTask' = [loadTask EXCEPT !.stage = "apply", !.snapshot = GetActiveSignals]
    /\ UNCHANGED << now, repoVars, risk, trackedSignals, isTracking, tickHandlers,
                    routeTasks, ghost, consVars, genVars, assistantVars >>

\* resumes after getActiveSignals: clear, then set every row of the answer.
\* Loops in flight over the Map restart at its first entry.
LoadApply ==
    /\ loadTask.stage = "apply"
    /\ trackedSignals' = loadTask.snapshot
    /\ tickHandlers' = [j \in DOMAIN tickHandlers |-> [tickHandlers[j] EXCEPT !.pos = 0]]
    /\ loadTask' = IdleLoad
    /\ ghost' = [ghost EXCEPT !.mutatedAfterStop =
                    @ \/ (loadTask.afterStop /\ loadTask.snapshot # << >>)]
    /\ UNCHANGED << now, repoVars, risk, isTracking, routeTasks,
                    consVars, genVars, assistantVars >>

(***************************************************************************)
(* SignalTracker.stop                                                      *)
(***************************************************************************)
Stop ==
    /\ isTracking
    /\ isTracking' = FALSE
    /\ trackedSignals' = << >>
    /\ tickHandlers' = [j \in DOMAIN tickHandlers |-> [tickHandlers[j] EXCEPT !.pos = 0]]
    /\ UNCHANGED << now, repoVars, risk, loadTask, routeTasks, ghost,
                    consVars, genVars, assistantVars >>

(***************************************************************************)
(* ConsolidatedSignalGenerator: levels and expiry of a consolidated signal *)
(* (percentages in units of 0.001 %)                                       *)
(***************************************************************************)
MIN_CONFIDENCE == 75

TimeframeSl(timeframe) ==
    IF timeframe = "SCALP" THEN 8 ELSE IF timeframe = "DAY" THEN 10 ELSE 12

TimeframeTp(timeframe) ==
    IF timeframe = "SCALP" THEN 25 ELSE IF timeframe = "DAY" THEN 30 ELSE 35

\* calculateRiskLevels with baseStopLoss at its floor of 1.5 %: the stop is
\* always below and the target always above the entry, whatever the action
CalculateRiskLevels(entryPrice, confidence, timeframe) ==
    LET stopLossPercent == (1500 * TimeframeSl(timeframe)) \div 10
        takeProfitPercent == (stopLossPercent * TimeframeTp(timeframe) * confidence) \div 1000
    IN  [stopLossPrice |-> ScaleBy(entryPrice, 100000 - stopLossPercent, 100000),
         takeProfitPrice |-> ScaleBy(entryPrice, 100000 + takeProfitPercent, 100000),
         riskReward |-> RoundDiv(takeProfitPercent * 100, stopLossPercent)]

CalculateExpiryTime(timeframe) ==
    now + (IF timeframe = "SCALP" THEN 15 ELSE IF timeframe = "DAY" THEN 240 ELSE 1440)

(***************************************************************************)
(* ConsolidatedSignalTracker                                               *)
(***************************************************************************)
\* generateConsolidatedSignal's quality gate, then addSignal: storeSignal,
\* look the row up among the active signals, track it
ConsAddSignal(symbol, action, confidence, timeframe, entryPrice) ==
    LET levels == CalculateRiskLevels(entryPrice, confidence, timeframe)
        row == NewSignal(symbol, timeframe, action, entryPrice, levels.takeProfitPrice,
                         levels.stopLossPrice, confidence, 3,
                         CalculateExpiryTime(timeframe), "AUTOMATED")
        stored == Append(signals, row)
        found == {id \in 1..Len(stored) :
                     /\ stored[id].isActive
                     /\ stored[id].symbol = symbol
                     /\ stored[id].action = action
                     /\ Abs(stored[id].entryPrice - entryPrice) < 10}
        dbSignal == CHOOSE id \in found : \A j \in found : j <= id
    IN  /\ Len(signals) < MaxSignals
        /\ confidence >= MIN_CONFIDENCE
        /\ levels.riskReward >= 250
        /\ signals' = stored
        /\ consTracked' =
              (IF \E k \in 1..Len(consTracked) : consTracked[k].id = dbSignal
               THEN consTracked
               ELSE Append(consTracked, [id |-> dbSignal, status |-> "ACTIVE",
                                         expiryTime |-> row.expiryTime]))
        /\ UNCHANGED << now, signalHistory, marketData, risk, trackerVars, routeTasks,
                        consRunning, consTask, genVars, assistantVars, ghost >>

\* checkSignalStatus on one tracked signal: the status it closes with
ConsCheck(tr, price) ==
    LET sig == signals[tr.id]
    IN  IF tr.expiryTime # NoTime /\ now > tr.expiryTime THEN "EXPIRED"
        ELSE IF sig.action = "BUY"
        THEN IF price >= sig.takeProfitPrice THEN "TP_HIT"
             ELSE IF price <= sig.stopLossPrice THEN "SL_HIT" ELSE "ACTIVE"
        ELSE IF sig.action = "SELL"
        THEN IF price <= sig.takeProfitPrice THEN "TP_HIT"
             ELSE IF price >= sig.stopLossPrice THEN "SL_HIT" ELSE "ACTIVE"
        ELSE "ACTIVE"

ConsEntry(tracked, id) == tracked[CHOOSE k \in 1..Len(tracked) : tracked[k].id = id]

ConsResult(status) ==
    IF status = "TP_HIT" THEN "PROFIT" ELSE IF status = "SL_HIT" THEN "LOSS" ELSE "NEUTRAL"

\* the loop of checkSignals up to the next closeSignal, which marks the
\* tracked entry and awaits updateSignal
ConsContinue(tracked, t, todo) ==
    LET C == {k \in 1..Len(todo) : ConsCheck(ConsEntry(tracked, todo[k]), t.price) # "ACTIVE"}
        k == CHOOSE k \in C : \A j \in C : k <= j
    IN  IF C = {} THEN [task |-> IdleCons, tracked |-> tracked]
        ELSE [task |-> [t EXCEPT !.stage = "update", !.cur = todo[k],
                                 !.status = ConsCheck(ConsEntry(tracked, todo[k]), t.price),
                                 !.todo = SubSeq(todo, k + 1, Len(todo))],
              tracked |-> [j \in 1..Len(tracked) |->
                              IF tracked[j].id = todo[k]
                              THEN [tracked[j] EXCEPT !.status =
                                       ConsCheck(ConsEntry(tracked, todo[k]), t.price)]
                              ELSE tracked[j]]]

\* the 5-second timer: checkSignals up to its await of the market data
ConsCheckStart ==
    LET active == SelectSeq(consTracked, LAMBDA tr : tr.status = "ACTIVE")
    IN  /\ consRunning
        /\ consTask.stage = "idle"
        /\ active # << >>
        /\ consTask' = [IdleCons EXCEPT !.stage = "prices",
                                        !.todo = [k \in 1..Len(active) |-> active[k].id]]
        /\ UNCHANGED << now, repoVars, risk, trackerVars, routeTasks, consTracked,
                        consRunning, genVars, assistantVars, ghost >>

\* resumes with the price of the symbol (NoPrice: the provider has none)
ConsPriced(price) ==
    LET next == ConsContinue(consTracked, [consTask EXCEPT !.price = price], consTask.todo)
    IN  /\ consTask.stage = "prices"
        /\ consTask' = IF price = NoPrice THEN IdleCons ELSE next.task
        /\ consTracked' = IF price = NoPrice THEN consTracked ELSE next.tracked
        /\ UNCHANGED << now, repoVars, risk, trackerVars, routeTasks,
                        consRunning, genVars, assistantVars, ghost >>

\* closeSignal resumes after updateSignal: result and exit price are stored
\* (status and closedAt are not columns of the table)
ConsUpdated ==
    /\ consTask.stage = "update"
    /\ signals' = [signals EXCEPT ![consTask.cur] =
           [@ EXCEPT !.result = ConsResult(consTask.status), !.exitPrice = consTask.price]]
    /\ consTask' = [consTask EXCEPT !.stage = "history"]
    /\ ghost' = [ghost EXCEPT
           !.winLossClosures = IF consTask.status = "EXPIRED" THEN @ ELSE @ + 1,
           !.losingStreak = IF consTask.status = "TP_HIT" THEN 0
                            ELSE IF consTask.status = "SL_HIT" THEN @ + 1 ELSE @]
    /\ UNCHANGED << now, signalHistory, marketData, risk, trackerVars, routeTasks,
                    consTracked, consRunning, genVars, assistantVars >>

\* closeSignal resumes after createSignalHistory and the notification: the
\* entry leaves the Map and the loop of checkSignals goes on
ConsRecorded ==
    LET sig == signals[consTask.cur]
        pips == IF sig.action = "BUY" THEN consTask.price - sig.entryPrice
                ELSE sig.entryPrice - consTask.price
        left == SelectSeq(consTracked, LAMBDA tr : tr.id # consTask.cur)
        next == ConsContinue(left, consTask, consTask.todo)
    IN  /\ consTask.stage = "history"
        /\ signalHistory' = Append(signalHistory,
               HistoryEntry(consTask.cur, ConsResult(consTask.status), consTask.price,
                            pips, "consolidated"))
        /\ consTask' = next.task
        /\ consTracked' = next.tracked
        /\ UNCHANGED << now, signals, marketData, risk, trackerVars, routeTasks,
                        consRunning, genVars, assistantVars, ghost >>

AdvanceClock(d, limit) ==
    /\ now + d <= limit
    /\ now' = now + d
    /\ UNCHANGED << repoVars, risk, trackerVars, routeTasks, consVars,
                    genVars, assistantVars, ghost >>

NextConsolidated ==
    \/ \E a \in SignalTypes : ConsAddSignal("V10", a, 85, "DAY", 1000000)
    \/ ConsCheckStart
    \/ \E q \in ConsPrices \cup {NoPrice} : ConsPriced(q)
    \/ ConsUpdated
    \/ ConsRecorded
    \/ AdvanceClock(120, MaxConsTime)

SpecConsolidated == Init /\ [][NextConsolidated]_vars

(***************************************************************************)
(* The consolidated tracker started on a repository that holds one active  *)
(* manual signal: startTracking awaits loadActiveSignals before it sets    *)
(* its timer.                                                              *)
(***************************************************************************)
InitConsLoad ==
    /\ \E t \in SignalTypes :
          LET tpSl == CalculateTakeProfitStopLoss(1000000, t, 85, ScaleBp(1000000, 9800),
                                                  ScaleBp(1000000, 10200), "MEDIUM")
          IN  signals = << NewSignal("V10", t, "", 1000000, tpSl.takeProfitPrice,
                                     tpSl.stopLossPrice, 85, 3, NoTime, "MANUAL") >>
    /\ marketData = [s \in Symbols |-> 1000000]
    /\ protection = NoProtection
    /\ validation = NoValidation
    /\ analysis = NoAnalysis
    /\ clustering = NoClustering
    /\ InitCore
    /\ consTracked = << >>
    /\ consRunning = TRUE
    /\ consTask = [IdleCons EXCEPT !.stage = "load"]

\* createConsolidatedSignalFromDb: the expiry of the consolidated signal made
\* from a row
ExpiryFromDb(dbSignal) ==
    IF dbSignal.expiryTime # NoTime THEN dbSignal.expiryTime ELSE now + 240

\* loadActiveSignals resumes with the active rows: those not yet expired are
\* tracked, and startTracking sets the timer
ConsLoaded ==
    LET active == SelectSeq(GetActiveSignals,
                      LAMBDA id : ~(signals[id].expiryTime # NoTime
                                    /\ now > signals[id].expiryTime))
    IN  /\ consTask.stage = "load"
        /\ consTracked' = [k \in 1..Len(active) |->
               [id |-> active[k], status |-> "ACTIVE",
                expiryTime |-> ExpiryFromDb(signals[active[k]])]]
        /\ consTask' = IdleCons
        /\ UNCHANGED << now, repoVars, risk, trackerVars, routeTasks, consRunning,
                        genVars, assistantVars, ghost >>

NextConsLoad ==
    \/ ConsLoaded
    \/ \E a \in SignalTypes : ConsAddSignal("V10", a, 85, "DAY", 1000000)
    \/ ConsCheckStart
    \/ \E q \in ConsPrices \cup {NoPrice} : ConsPriced(q)
    \/ ConsUpdated
    \/ ConsRecorded
    \/ AdvanceClock(120, MaxConsTime)

SpecConsLoad == InitConsLoad /\ [][NextConsLoad]_vars

\* C37: a closure for expiry is only ever under way for a signal whose row
\* has an expiry timestamp.
NoExpiryNeverExpires ==
    (consTask.stage \in {"update", "history"} /\ consTask.status = "EXPIRED")
        => signals[consTask.cur].expiryTime # NoTime

\* what checkActiveSignals of the routes decides for a row: it looks only at
\* rows that have both levels
RoutesDecision(sig, price) ==
    IF sig.takeProfitPrice # NoPrice /\ sig.stopLossPrice # NoPrice
    THEN RouteCheck(sig, price) ELSE "NONE"

\* the decision of the consolidated tracker in the words of the other two
ConsDecision(status) ==
    IF status = "TP_HIT" THEN "WIN" ELSE IF status = "SL_HIT" THEN "LOSS"
    ELSE IF status = "EXPIRED" THEN "EXPIRED" ELSE "NONE"

\* C40: for an active signal that the consolidated tracker tracks and for any
\* price, checkActiveSignals of the routes, SignalTracker.checkSignalStatus
\* and the consolidated checkSignalStatus decide the same: the same outcome,
\* or no closure.
ClosersDecideAlike ==
    \A k \in 1..Len(consTracked), price \in ConsPrices :
        (signals[consTracked[k].id].isActive /\ consTracked[k].status = "ACTIVE")
            => /\ RoutesDecision(signals[consTracked[k].id], price)
                     = TrackerCheck(signals[consTracked[k].id], price)
               /\ TrackerCheck(signals[consTracked[k].id], price)
                     = ConsDecision(ConsCheck(consTracked[k], price))

\* C8: a closer that has recorded an outcome for a signal has deactivated it:
\* once no closure is in flight, no signal with a recorded outcome is returned
\* by the active-signal query.
ClosedSignalsAreInactive ==
    ClosersIdle
        => \A id \in 1..Len(signals) :
               signals[id].result # "NONE" => id \notin SeqToSet(GetActiveSignals)

\* closeSignal of the consolidated tracker completes a closure for expiry
ExpiryClosureCompletes ==
    /\ consTask.stage = "history"
    /\ consTask.status = "EXPIRED"
    /\ consTask' # consTask

\* C23: a signal whose expiry time passes before a tick reaches its levels is
\* closed with outcome EXPIRED: it is no longer active, and its row and its
\* history entry carry EXPIRED and the exit price.
ExpiryClosesAsExpired ==
    [][ExpiryClosureCompletes
          => /\ ~signals'[consTask.cur].isActive
             /\ signals'[consTask.cur].result = "EXPIRED"
             /\ signals'[consTask.cur].exitPrice = consTask.price
             /\ signalHistory'[Len(signalHistory')].result = "EXPIRED"]_vars

\* the direction of a stored row: the consolidated generator keeps it in
\* "action" (signalType holds the timeframe), the other paths in signalType
Direction(sig) == IF sig.action # "" THEN sig.action ELSE sig.signalType

\* C15: every generated signal has its levels on the correct sides of entry:
\* stop < entry < target for BUY, target < entry < stop for SELL.
LevelsOnCorrectSides ==
    \A id \in 1..Len(signals) :
        /\ Direction(signals[id]) = "BUY"
               => /\ signals[id].stopLossPrice < signals[id].entryPrice
                  /\ signals[id].entryPrice < signals[id].takeProfitPrice
        /\ Direction(signals[id]) = "SELL"
               => /\ signals[id].takeProfitPrice < signals[id].entryPrice
                  /\ signals[id].entryPrice < signals[id].stopLossPrice

(***************************************************************************)
(* RiskManagementService: sizing and validation (percentages in 0.001 %)   *)
(***************************************************************************)
GetConfidenceBasedRisk(confidence) ==
    IF confidence >= 90 THEN 1500
    ELSE IF confidence >= 80 THEN 1200
    ELSE IF confidence >= 75 THEN 1000
    ELSE IF confidence >= 70 THEN 800
    ELSE IF confidence >= 60 THEN 500
    ELSE 300

\* in tenths
GetConsecutiveLossAdjustment(r) ==
    IF r.consecutiveLosses = 0 THEN 10
    ELSE IF r.consecutiveLosses = 1 THEN 9
    ELSE IF r.consecutiveLosses = 2 THEN 8
    ELSE IF r.consecutiveLosses >= 3 THEN 6
    ELSE 10

\* the table is keyed by feed symbols; display symbols fall to the default
CalculateBaseStopLoss(symbol) ==
    IF symbol = "R_10" THEN 800
    ELSE IF symbol = "R_25" THEN 1000
    ELSE IF symbol = "R_75" THEN 1200
    ELSE IF symbol \in {"RDBULL", "RDBEAR"} THEN 1500
    ELSE 1000

riskRewardRatio == 25

\* confidenceRisk * consecutiveLossAdjustment, in units of 0.001 %
FinalRiskPercent(r, confidence) ==
    (GetConfidenceBasedRisk(confidence) * GetConsecutiveLossAdjustment(r)) \div 10

CalculateEnhancedRiskParams(r, symbol, signalType, entryPrice, confidence) ==
    LET finalRiskPercent == FinalRiskPercent(r, confidence)
        stopLossPercent == Min(CalculateBaseStopLoss(symbol), (finalRiskPercent * 8) \div 10)
        takeProfitPercent == (stopLossPercent * riskRewardRatio) \div 10
    IN  [stopLossPrice |->
            IF signalType = "BUY"
            THEN ScaleBy(entryPrice, 100000 - stopLossPercent, 100000)
            ELSE ScaleBy(entryPrice, 100000 + stopLossPercent, 100000),
         takeProfitPrice |->
            IF signalType = "BUY"
            THEN ScaleBy(entryPrice, 100000 + takeProfitPercent, 100000)
            ELSE ScaleBy(entryPrice, 100000 - takeProfitPercent, 100000),
         riskRewardRatio |-> riskRewardRatio,
         maxLossPercentage |-> stopLossPercent,
         maxGainPercentage |-> takeProfitPercent]

\* isValid of validateSignalRisk
ValidateSignalRisk(r, riskParams) ==
    /\ ~(riskParams.riskRewardRatio < 20)
    /\ ~(riskParams.maxLossPercentage > 2000)
    /\ ~ShouldStopTrading(r)

(***************************************************************************)
(* SignalClusteringService.calculatePriority and SignalManager             *)
(***************************************************************************)
CalculatePriority(confidence, riskLevel, bonus) ==
    LET byConfidence == IF confidence > 85 THEN 5
                        ELSE IF confidence > 75 THEN 4
                        ELSE IF confidence < 60 THEN 2 ELSE 3
        byRisk == IF riskLevel = "HIGH" THEN byConfidence - 1
                  ELSE IF riskLevel = "LOW" THEN byConfidence + 1 ELSE byConfidence
        byType == IF bonus THEN byRisk + 1 ELSE byRisk
    IN  Max(1, Min(5, byType))

\* checkForConflicts over the rows returned by getActiveSignals
CheckForConflicts(symbol, cand) ==
    SelectSeq(GetActiveSignals,
              LAMBDA id :
                  /\ signals[id].symbol = symbol
                  /\ \/ signals[id].signalType # cand.signalType
                     \/ Abs(signals[id].entryPrice - cand.entryPrice) * 100
                            < signals[id].entryPrice)

\* one turn of shouldCreateDespiteConflicts' loop
Outranks(cand, conflict) ==
    LET newPriority == IF cand.priority = 0 THEN 3 ELSE cand.priority
        conflictPriority == IF conflict.priority = 0 THEN 3 ELSE conflict.priority
    IN  \/ cand.confidence > conflict.confidence
        \/ cand.confidence = conflict.confidence /\ newPriority < conflictPriority

\* the loop returns true at the first conflict that is outranked
ShouldCreateDespiteConflicts(cand, conflicts) ==
    \E k \in 1..Len(conflicts) : Outranks(cand, signals[conflicts[k]])

CategorizeSignal(confidence) ==
    IF confidence >= 85 THEN [tradeType |-> "SCALP", timeframe |-> "M5", priority |-> 1]
    ELSE IF confidence >= 75 THEN [tradeType |-> "DAY", timeframe |-> "M15", priority |-> 2]
    ELSE IF confidence >= 60 THEN [tradeType |-> "SWING", timeframe |-> "H1", priority |-> 3]
    ELSE [tradeType |-> "DAY", timeframe |-> "M15", priority |-> 3]

(***************************************************************************)
(* AutomatedSignalGenerator: a generation cycle over the symbols, with the *)
(* SignalManager creation it awaits                                        *)
(***************************************************************************)
retryAttempts == 3

InCreation(t) == t.stage \in {"conflicts", "deactivate", "store"}

CyclesRunning == {i \in DOMAIN genTasks : genTasks[i].stage # "idle"}

\* generateSignalsWithRetry from the timer: skipped while isGenerating
GenScheduled(connected) ==
    LET i == FreeSlot(genTasks)
    IN  /\ ghost.cycles < MaxCycles
        /\ ~isGenerating
        /\ i # 0
        /\ isGenerating' = TRUE
        /\ genTasks' = [genTasks EXCEPT ![i] =
               [IdleGen EXCEPT !.stage = IF connected THEN "history" ELSE "delay",
                               !.viaRetry = TRUE, !.attempt = 1]]
        /\ ghost' = [ghost EXCEPT !.cycles = @ + 1]
        /\ UNCHANGED << now, repoVars, risk, trackerVars, routeTasks, consVars,
                        assistantVars >>

\* POST /api/automation/generate-now: generateNow calls generateSignals and
\* returns its promise; without a connection generateSignals throws before
\* its first await and the rejection reaches the route handler
GenNow(connected) ==
    LET i == FreeSlot(genTasks)
    IN  /\ ghost.cycles < MaxCycles
        /\ i # 0
        /\ genTasks' = IF connected
                       THEN [genTasks EXCEPT ![i] = [IdleGen EXCEPT !.stage = "history"]]
                       ELSE genTasks
        /\ ghost' = [ghost EXCEPT !.cycles = @ + 1, !.thrown = @ \/ ~connected]
        /\ UNCHANGED << now, repoVars, risk, trackerVars, routeTasks, consVars,
                        isGenerating, assistantVars >>

\* the retry delay has elapsed: next attempt of generateSignalsWithRetry
GenRetry(i, connected) ==
    LET t == genTasks[i]
        givesUp == ~connected /\ t.attempt + 1 = retryAttempts
    IN  /\ t.stage = "delay"
        /\ genTasks' = [genTasks EXCEPT ![i] =
               IF connected THEN [t EXCEPT !.stage = "history", !.attempt = @ + 1]
               ELSE IF givesUp THEN IdleGen
               ELSE [t EXCEPT !.attempt = @ + 1]]
        /\ isGenerating' = IF givesUp THEN FALSE ELSE isGenerating
        /\ ghost' = [ghost EXCEPT !.exhausted = @ \/ givesUp]
        /\ UNCHANGED << now, repoVars, risk, trackerVars, routeTasks, consVars,
                        assistantVars >>

\* the cycle is over and the flag is left as it is
EndCycleKeepingGuard(i) ==
    /\ genTasks' = [genTasks EXCEPT ![i] = IdleGen]
    /\ UNCHANGED isGenerating

\* the cycle is over: generateSignalsWithRetry clears its flag
EndCycle(i) ==
    /\ genTasks' = [genTasks EXCEPT ![i] = IdleGen]
    /\ isGenerating' = IF genTasks[i].viaRetry THEN FALSE ELSE isGenerating

\* resumes with the market history: no actionable signal for the symbol
GenNoSignal(i) ==
    /\ genTasks[i].stage = "history"
    /\ EndCycle(i)
    /\ UNCHANGED << now, repoVars, risk, trackerVars, routeTasks, consVars,
                    assistantVars, ghost >>

\* resumes with the market history and a candidate: clustering, risk
\* parameters and validation, then checkForConflicts awaits the active signals
GenCandidate(i, signalType, confidence, entryPrice, riskLevel, bonus) ==
    LET t == genTasks[i]
        riskParams == CalculateEnhancedRiskParams(risk, "V10", signalType, entryPrice, confidence)
        cand == [signalType |-> signalType, confidence |-> confidence,
                 entryPrice |-> entryPrice,
                 priority |-> CalculatePriority(confidence, riskLevel, bonus),
                 takeProfitPrice |-> riskParams.takeProfitPrice,
                 stopLossPrice |-> riskParams.stopLossPrice]
    IN  /\ t.stage = "history"
        /\ Len(signals) + Cardinality({j \in DOMAIN genTasks : InCreation(genTasks[j])})
              < MaxSignals
        /\ IF ValidateSignalRisk(risk, riskParams)
           THEN /\ genTasks' = [genTasks EXCEPT ![i] =
                       [t EXCEPT !.stage = "conflicts", !.cand = cand]]
                /\ UNCHANGED isGenerating
           ELSE EndCycle(i)
        /\ UNCHANGED << now, repoVars, risk, trackerVars, routeTasks, consVars,
                        assistantVars, ghost >>

\* a rejection that has already deactivated the conflicts it lost against
RejectCandidateAfterDeactivation(i) ==
    /\ EndCycle(i)
    /\ signals' = [id \in 1..Len(signals) |->
           IF id \in SeqToSet(CheckForConflicts("V10", genTasks[i].cand))
           THEN [signals[id] EXCEPT !.isActive = FALSE, !.result = "REPLACED"]
           ELSE signals[id]]

\* shouldCreate is false: the creation returns null
RejectCandidate(i) ==
    /\ EndCycle(i)
    /\ UNCHANGED signals

\* resumes with the active signals: the conflicts, the decision, and either
\* the first deactivation or createSignal
GenConflictsChecked(i) ==
    LET t == genTasks[i]
        conflicts == CheckForConflicts("V10", t.cand)
        accepted == conflicts = << >> \/ ShouldCreateDespiteConflicts(t.cand, conflicts)
    IN  /\ t.stage = "conflicts"
        /\ IF conflicts = << >>
           THEN /\ genTasks' = [genTasks EXCEPT ![i] = [t EXCEPT !.stage = "store"]]
                /\ UNCHANGED << isGenerating, signals >>
           ELSE IF ShouldCreateDespiteConflicts(t.cand, conflicts)
           THEN /\ genTasks' = [genTasks EXCEPT ![i] =
                       [t EXCEPT !.stage = "deactivate", !.conflicts = conflicts,
                                 !.todo = conflicts]]
                /\ UNCHANGED << isGenerating, signals >>
           ELSE RejectCandidate(i)
        /\ ghost' = [ghost EXCEPT !.rejected = @ \/ ~accepted]
        /\ UNCHANGED << now, signalHistory, marketData, risk, trackerVars, routeTasks,
                        consVars, assistantVars >>

\* deactivateConflictingSignals resumes after one updateSignal
GenDeactivated(i) ==
    LET t == genTasks[i]
        id == Head(t.todo)
    IN  /\ t.stage = "deactivate"
        /\ signals' = [signals EXCEPT ![id] =
               [@ EXCEPT !.isActive = FALSE, !.result = "REPLACED",
                         !.exitPrice = signals[id].entryPrice]]
        /\ genTasks' = [genTasks EXCEPT ![i] =
               [t EXCEPT !.todo = Tail(@),
                         !.stage = IF Tail(t.todo) = << >> THEN "store" ELSE "deactivate"]]
        /\ UNCHANGED << now, signalHistory, marketData, risk, trackerVars, routeTasks,
                        consVars, isGenerating, assistantVars, ghost >>

\* resumes after createSignal: the row exists, it is handed to
\* signalTracker.addSignalToTracking, and the cycle ends
GenStored(i) ==
    LET t == genTasks[i]
        row == NewSignal("V10", t.cand.signalType, "", t.cand.entryPrice,
                         t.cand.takeProfitPrice, t.cand.stopLossPrice, t.cand.confidence,
                         CategorizeSignal(t.cand.confidence).priority, NoTime, "AUTOMATED")
        id == Len(signals) + 1
    IN  /\ t.stage = "store"
        /\ signals' = Append(signals, row)
        /\ trackedSignals' = IF row.isActive /\ IndexOf(trackedSignals, id) = 0
                             THEN Append(trackedSignals, id) ELSE trackedSignals
        /\ EndCycle(i)
        /\ UNCHANGED << now, signalHistory, marketData, risk, isTracking, tickHandlers,
                        loadTask, routeTasks, consVars, assistantVars, ghost >>

\* an awaited repository call of the creation rejects (getActiveSignals,
\* one updateSignal of the deactivation loop, or createSignal): the catch
\* of createSignalWithConflictPrevention returns null and the cycle goes on
GenRepositoryFailed(i) ==
    /\ InCreation(genTasks[i])
    /\ EndCycle(i)
    /\ UNCHANGED << now, repoVars, risk, trackerVars, routeTasks, consVars,
                    assistantVars, ghost >>

GenStep ==
    \/ \E c \in BOOLEAN : GenScheduled(c)
    \/ \E c \in BOOLEAN : GenNow(c)
    \/ \E i \in 1..MaxHandlers, c \in BOOLEAN : GenRetry(i, c)
    \/ \E i \in 1..MaxHandlers : GenNoSignal(i)
    \/ \E i \in 1..MaxHandlers, t \in SignalTypes, c \in GenConfidences, e \in GenEntries :
           GenCandidate(i, t, c, e, "MEDIUM", FALSE)
    \/ \E i \in 1..MaxHandlers : GenConflictsChecked(i)
    \/ \E i \in 1..MaxHandlers : GenDeactivated(i)
    \/ \E i \in 1..MaxHandlers : GenStored(i)

SpecGeneration == Init /\ [][GenStep]_vars

(***************************************************************************)
(* The scheduled generation alone.  Every awaited call of a cycle returns  *)
(* or rejects, and the retry delay elapses: each cycle in flight is        *)
(* resumed in the end.                                                     *)
(***************************************************************************)
GenContinue(i) ==
    \/ \E c \in BOOLEAN : GenRetry(i, c)
    \/ GenNoSignal(i)
    \/ \E t \in SignalTypes, c \in GenConfidences, e \in GenEntries :
           GenCandidate(i, t, c, e, "MEDIUM", FALSE)
    \/ GenConflictsChecked(i)
    \/ GenDeactivated(i)
    \/ GenStored(i)

NextRetry ==
    \/ \E c \in BOOLEAN : GenScheduled(c)
    \/ \E i \in 1..MaxHandlers : GenContinue(i)

SpecRetry ==
    Init /\ [][NextRetry]_vars /\ \A i \in 1..MaxHandlers : WF_vars(GenContinue(i))

\* C36: a scheduled generation cycle never makes more than retryAttempts
\* attempts, the step that ends it (by success or after the last failed
\* attempt) clears isGenerating, and a set isGenerating is cleared in the end.
GenerationCycleEnds ==
    /\ [](\A i \in DOMAIN genTasks : genTasks[i].attempt <= retryAttempts)
    /\ [][\A i \in DOMAIN genTasks :
             (/\ genTasks[i].viaRetry
              /\ genTasks[i].stage # "idle"
              /\ genTasks'[i].stage = "idle") => ~isGenerating']_vars
    /\ (isGenerating ~> ~isGenerating)

\* a cycle has given up after its last attempt, a later one has stored a
\* signal, and the guard is clear
RetriesExhaustedGuardClear ==
    /\ ghost.exhausted
    /\ signals # << >>
    /\ ~isGenerating
    /\ \A i \in DOMAIN genTasks : genTasks[i].stage = "idle"

\* C4: at most one generation cycle is running at any time, whether it was
\* started by the scheduler or by the manual trigger.
AtMostOneCycle == Cardinality(CyclesRunning) <= 1

\* C26: no error raised inside signal generation reaches the caller that
\* triggered it, whether the scheduler or the manual trigger.
NoErrorReachesCaller == ~ghost.thrown

\* the directions and entries of two signals clash: opposite directions, or
\* the same direction with entries within 1 % of each other
Clash(a, b) ==
    /\ a.symbol = b.symbol
    /\ a.signalType \in SignalTypes /\ b.signalType \in SignalTypes
    /\ \/ a.signalType # b.signalType
       \/ Abs(a.entryPrice - b.entryPrice) * 100 < Max(a.entryPrice, b.entryPrice)

\* C2: no two active signals on one symbol clash, whichever path created them.
NoConflictingActiveSignals ==
    \A a, b \in 1..Len(signals) :
        (a # b /\ signals[a].isActive /\ signals[b].isActive)
            => ~Clash(signals[a], signals[b])

\* C3: a candidate that was accepted despite conflicts outranks every one of
\* them (strictly higher confidence, or equal confidence and a strictly lower
\* priority number).
AcceptedOutranksEveryConflict ==
    \A i \in DOMAIN genTasks :
        (genTasks[i].stage \in {"deactivate", "store"} /\ genTasks[i].conflicts # << >>)
            => \A k \in 1..Len(genTasks[i].conflicts) :
                   Outranks(genTasks[i].cand, signals[genTasks[i].conflicts[k]])

\* generation with repository calls that may fail
NextPersistence ==
    \/ GenStep
    \/ \E i \in 1..MaxHandlers : GenRepositoryFailed(i)

SpecPersistence == Init /\ [][NextPersistence]_vars

\* the step ends the creation of task i without persisting its candidate
CreationAbandoned(i) ==
    /\ InCreation(genTasks[i])
    /\ genTasks'[i].stage = "idle"
    /\ Len(signals') = Len(signals)

\* the step is createSignal of task i
CreationPersisted(i) ==
    /\ genTasks[i].stage = "store"
    /\ genTasks'[i].stage = "idle"
    /\ Len(signals') = Len(signals) + 1

\* C11: an acceptance that ends without persisting its candidate has
\* deactivated none of the conflicting signals.
AcceptanceAllOrNothing ==
    [][\A i \in DOMAIN genTasks :
          CreationAbandoned(i) => genTasks[i].todo = genTasks[i].conflicts]_vars

\* C12: when the accepted candidate is persisted, every signal it was found
\* to conflict with is inactive with outcome REPLACED, and no active signal
\* of the repository conflicts with it.
ConflictsReplacedBeforePersist ==
    [][\A i \in DOMAIN genTasks :
          CreationPersisted(i)
              => /\ \A k \in 1..Len(genTasks[i].conflicts) :
                        /\ ~signals[genTasks[i].conflicts[k]].isActive
                        /\ signals[genTasks[i].conflicts[k]].result = "REPLACED"
                 /\ CheckForConflicts("V10", genTasks[i].cand) = << >>]_vars

\* C13: the step that rejects a candidate because of a conflict changes no
\* stored signal, persists nothing and tracks nothing.
RejectionMutatesNothing ==
    [][(ghost'.rejected /\ ~ghost.rejected)
          => /\ signals' = signals
             /\ signalHistory' = signalHistory
             /\ trackedSignals' = trackedSignals]_vars

\* a candidate has been rejected while a conflicting signal is active
RejectedWithConflictActive ==
    /\ ghost.rejected
    /\ \E id \in 1..Len(signals) : signals[id].isActive

(***************************************************************************)
(* Signal lifecycle: manual creation, the two tick-driven closers, the     *)
(* tracker's reload and stop                                               *)
(***************************************************************************)
NextLifecycle ==
    \/ \E t \in SignalTypes : Len(signals) < MaxManual /\ ManualSignal("V10", t, 85)
    \/ \E q \in LifecyclePrices : DeliverTick("R_10", q)
    \/ \E i \in 1..MaxHandlers : TrackerClosed(i)
    \/ \E i \in 1..MaxHandlers : TrackerRecorded(i)
    \/ \E i \in 1..MaxHandlers : RouteScan(i)
    \/ \E i \in 1..MaxHandlers : RouteClosed(i)
    \/ LoadStart
    \/ LoadRead
    \/ LoadApply
    \/ Stop

SpecLifecycle == Init /\ [][NextLifecycle]_vars

HistoryCount(id) ==
    Cardinality({k \in 1..Len(signalHistory) : signalHistory[k].signalId = id})

ClosedWithOutcome(sig) == ~sig.isActive /\ sig.result # "NONE"

\* C1: every closed signal has exactly one SignalOutcome in the history: never
\* more than one, and one as soon as the closers have finished, whichever
\* closer closed it and however many ticks were in flight.
OneOutcomePerClosedSignal ==
    \A id \in 1..Len(signals) :
        /\ HistoryCount(id) <= 1
        /\ (signals[id].result \in {"WIN", "LOSS"} /\ ClosersIdle)
               => HistoryCount(id) = 1

\* C6: once a signal is closed with an outcome its row never changes again:
\* it does not become active, and outcome, exit price and P&L stay as recorded.
ClosedIsFinal ==
    [][\A id \in 1..Len(signals) :
          ClosedWithOutcome(signals[id]) => signals'[id] = signals[id]]_vars

\* C7: every closure as WIN or LOSS has updated the risk counters exactly once:
\* the number of recorded trades equals the number of closures.
EveryClosureUpdatesRisk == risk.totalTrades = ghost.winLossClosures

\* C28: the risk percentage that sizes the next trade is the base risk of
\* the confidence tier times 1.0, 0.9, 0.8 or 0.6 for 0, 1, 2 or at least 3
\* losing closures in a row since the last winning closure.
RiskShrinksWithLosingStreak ==
    LET multiplier == IF ghost.losingStreak = 0 THEN 10
                      ELSE IF ghost.losingStreak = 1 THEN 9
                      ELSE IF ghost.losingStreak = 2 THEN 8 ELSE 6
    IN  ClosersIdle
            => \A c \in GenConfidences :
                  FinalRiskPercent(risk, c) = (GetConfidenceBasedRisk(c) * multiplier) \div 10

\* C9: after stop() no tick handler or reload started later closes a signal or
\* puts entries back into the tracked set.
NoMutationAfterStop == ~ghost.mutatedAfterStop

(***************************************************************************)
(* Ticks on and around the levels of one manual signal entered at 100:     *)
(* target 101.49 and stop 98.50 for BUY, target 98.49 and stop 101.50 for  *)
(* SELL                                                                    *)
(***************************************************************************)
TickPrices == {1000000, 1014900, 985000, 984900, 1015000}

\* the server starts on a repository that holds one active manual signal
InitTick ==
    /\ \E t \in SignalTypes :
          LET tpSl == CalculateTakeProfitStopLoss(1000000, t, 85, ScaleBp(1000000, 9800),
                                                  ScaleBp(1000000, 10200), "MEDIUM")
          IN  signals = << NewSignal("V10", t, "", 1000000, tpSl.takeProfitPrice,
                                     tpSl.stopLossPrice, 85, 3, NoTime, "MANUAL") >>
    /\ marketData = [s \in Symbols |-> 1000000]
    /\ protection = NoProtection
    /\ validation = NoValidation
    /\ analysis = NoAnalysis
    /\ clustering = NoClustering
    /\ InitServices

NextTick ==
    \/ \E q \in TickPrices : DeliverTick("R_10", q)
    \/ \E i \in 1..MaxHandlers : TrackerClosed(i)
    \/ \E i \in 1..MaxHandlers : TrackerRecorded(i)
    \/ \E i \in 1..MaxHandlers : RouteScan(i)
    \/ \E i \in 1..MaxHandlers : RouteClosed(i)
    \/ LoadRead
    \/ LoadApply

SpecTick == InitTick /\ [][NextTick]_vars

\* the outcome a tick at this price has for the signal
TickOutcome(sig, price) ==
    IF sig.signalType = "BUY" /\ price >= sig.takeProfitPrice THEN "WIN"
    ELSE IF sig.signalType = "BUY" /\ price <= sig.stopLossPrice THEN "LOSS"
    ELSE IF sig.signalType = "SELL" /\ price <= sig.takeProfitPrice THEN "WIN"
    ELSE IF sig.signalType = "SELL" /\ price >= sig.stopLossPrice THEN "LOSS"
    ELSE "NONE"

\* a signal that stops being active does so with the outcome of the tick
\* price it is closed at
ClosedByTickRule ==
    \A id \in 1..Len(signals) :
        (signals[id].isActive /\ ~signals'[id].isActive)
           => /\ signals'[id].result \in {"WIN", "LOSS"}
              /\ signals'[id].result = TickOutcome(signals[id], signals'[id].exitPrice)

\* once the closers have finished, no active signal of the symbol has a level
\* reached by the latest price
NoActiveSignalPastItsLevels ==
    ClosersIdle
        => \A id \in 1..Len(signals) :
               signals[id].isActive
                  => TickOutcome(signals[id], marketData[signals[id].symbol]) = "NONE"

\* C24: on a tick an active BUY signal is closed as WIN at price >= target and
\* as LOSS at price <= stop, an active SELL signal as WIN at price <= target
\* and as LOSS at price >= stop, and otherwise the signal stays active.
TickClosesByLevels ==
    [][ClosedByTickRule]_vars /\ []NoActiveSignalPastItsLevels

\* a signal was closed as WIN by a tick exactly on its target
ClosedExactlyOnTarget ==
    /\ ClosersIdle
    /\ \E id \in 1..Len(signals) :
          /\ ~signals[id].isActive
          /\ signals[id].result = "WIN"
          /\ signals[id].exitPrice = signals[id].takeProfitPrice

(***************************************************************************)
(* Ticks whose quote is zero or negative, and ticks at the entry price,    *)
(* which lies between the levels of the signal.  handleMessage passes      *)
(* parseFloat(quote) on to both subscribers as it is.                      *)
(***************************************************************************)
InvalidPrices == {0, -10000}

NextInvalidTick ==
    \/ \E q \in InvalidPrices \cup {1000000} : DeliverTick("R_10", q)
    \/ \E i \in 1..MaxHandlers : TrackerClosed(i)
    \/ \E i \in 1..MaxHandlers : TrackerRecorded(i)
    \/ \E i \in 1..MaxHandlers : RouteScan(i)
    \/ \E i \in 1..MaxHandlers : RouteClosed(i)
    \/ LoadRead
    \/ LoadApply

SpecInvalidTick == InitTick /\ [][NextInvalidTick]_vars

\* C25: a tick whose price is zero or negative is discarded: it closes no
\* signal, records no outcome and leaves the risk counters alone.  The only
\* other price delivered here is between the levels, so nothing closes.
InvalidTicksAreDiscarded ==
    /\ \A id \in 1..Len(signals) : signals[id].isActive /\ signals[id].result = "NONE"
    /\ signalHistory = << >>
    /\ risk = InitRisk

(***************************************************************************)
(* Manual creation with the routes.ts closer                               *)
(***************************************************************************)
NextManual ==
    \/ \E t \in SignalTypes : ManualSignal("V10", t, 85)
    \/ \E q \in ManualPrices : DeliverTick("R_10", q)
    \/ \E i \in 1..MaxHandlers : RouteScan(i)
    \/ \E i \in 1..MaxHandlers : RouteClosed(i)

SpecManual == Init /\ [][NextManual]_vars

\* validateSignalRisk accepts at least one candidate under counters r
ValidatorAccepts(r) ==
    \E t \in SignalTypes, c \in GenConfidences, e \in GenEntries :
        ValidateSignalRisk(r, CalculateEnhancedRiskParams(r, "V10", t, e, c))

\* C10: once the counters say that the maximum drawdown is breached, no later
\* trade result makes the validator accept a candidate again.
DrawdownBlockIsPermanent ==
    [][ShouldStopTrading(risk) => ~ValidatorAccepts(risk')]_vars

(***************************************************************************)
(* POST /api/analysis/execute: a signal built from the latest stored price *)
(* and the confidence of technicalAnalysis.generateSignal, created without *)
(* the risk validator and without the conflict check.  The reward ratio is *)
(* in tenths, the stop distance in units of 0.01 %.                        *)
(***************************************************************************)
AnalysisConfidences == {60, 75, 85}

AnalysisExecute(symbol, signalType, confidence) ==
    LET entryPrice == marketData[symbol]
        rewardRatio == IF confidence >= 85 THEN 25 ELSE IF confidence >= 75 THEN 20 ELSE 15
        stopLossPercent == 150
        levels == GenerateTradeLevels(entryPrice, signalType,
                      (stopLossPercent * rewardRatio) \div 10, stopLossPercent)
    IN  /\ Len(signals) < MaxSignals
        /\ entryPrice # NoPrice
        /\ confidence >= 60
        /\ signals' = Append(signals,
               NewSignal(symbol, signalType, "", entryPrice, levels.takeProfit,
                         levels.stopLoss, confidence, 3, NoTime, "ANALYSIS"))
        /\ UNCHANGED << now, signalHistory, marketData, risk, trackerVars, routeTasks, ghost,
                        consVars, genVars, assistantVars >>

NextAnalysis ==
    \/ \E t \in SignalTypes, c \in AnalysisConfidences : AnalysisExecute("V10", t, c)
    \/ \E t \in SignalTypes : ManualSignal("V10", t, 85)
    \/ \E q \in ManualPrices : DeliverTick("R_10", q)
    \/ \E i \in 1..MaxHandlers : RouteScan(i)
    \/ \E i \in 1..MaxHandlers : RouteClosed(i)

SpecAnalysis == Init /\ [][NextAnalysis]_vars

\* take-profit distance over stop-loss distance, in tenths, rounded down
RewardToRisk(sig) ==
    (Abs(sig.takeProfitPrice - sig.entryPrice) * 10) \div Abs(sig.entryPrice - sig.stopLossPrice)

\* C14: every active signal in the repository, whichever path created it, has
\* a take-profit distance of at least 2.0 times its stop-loss distance.
ActiveSignalsMeetMinimumRiskReward ==
    \A id \in 1..Len(signals) : signals[id].isActive => RewardToRisk(signals[id]) >= 20

(***************************************************************************)
(* SignalManager.createSignalWithConflictPrevention on a candidate that    *)
(* comes with levels of its own: stop 1 % from the entry, target between   *)
(* 1.5 % and 3 % from it.  The repository holds no signal, so that the     *)
(* conflict check finds nothing.                                           *)
(***************************************************************************)
CandidateRewards == {15000, 18000, 20000, 22000, 25000, 30000}

CandidateConfidences == {65, 85, 95}

Candidate(signalType, entryPrice, reward, confidence) ==
    [signalType |-> signalType, entryPrice |-> entryPrice, confidence |-> confidence,
     takeProfitPrice |-> IF signalType = "BUY" THEN entryPrice + reward
                         ELSE entryPrice - reward,
     stopLossPrice |-> IF signalType = "BUY" THEN entryPrice - 10000
                       ELSE entryPrice + 10000]

InitValidation ==
    /\ signals = << >>
    /\ marketData = [s \in Symbols |-> NoPrice]
    /\ protection = NoProtection
    /\ \E t \in SignalTypes, e \in GenEntries, w \in CandidateRewards,
          c \in CandidateConfidences :
          validation = [NoValidation EXCEPT !.candidate = Candidate(t, e, w, c)]
    /\ analysis = NoAnalysis
    /\ clustering = NoClustering
    /\ InitServices

\* the risk parameters are computed from the symbol, the direction, the entry
\* and the confidence; what validateSignalRisk accepts is stored with the
\* levels of the risk parameters
CreateSignalWithConflictPrevention ==
    LET c == validation.candidate
        riskParams == CalculateEnhancedRiskParams(risk, "V10", c.signalType, c.entryPrice,
                                                  c.confidence)
        isValid == ValidateSignalRisk(risk, riskParams)
        enhanced == [c EXCEPT !.takeProfitPrice = riskParams.takeProfitPrice,
                              !.stopLossPrice = riskParams.stopLossPrice]
    IN  /\ ~validation.asked
        /\ validation' = [validation EXCEPT !.asked = TRUE, !.isValid = isValid]
        /\ signals' =
              IF isValid /\ CheckForConflicts("V10", enhanced) = << >>
              THEN Append(signals,
                       NewSignal("V10", c.signalType, "", c.entryPrice,
                                 enhanced.takeProfitPrice, enhanced.stopLossPrice, c.confidence,
                                 CategorizeSignal(c.confidence).priority, NoTime, "AUTOMATED"))
              ELSE signals
        /\ UNCHANGED << now, signalHistory, marketData, risk, trackerVars, routeTasks,
                        consVars, genVars, isMonitoring, healthCheckInterval,
                        monitoredSignals, lastAlertStates, healthTasks, alerts, startVars,
                        protection, analysis, clustering, ghost >>

NextValidation == CreateSignalWithConflictPrevention

SpecValidation == InitValidation /\ [][NextValidation]_vars

\* C27: a candidate whose risk-reward ratio is below the configured minimum
\* is found invalid and no signal is created for it.
LowRiskRewardIsRejected ==
    (validation.asked /\ RewardToRisk(validation.candidate) < riskRewardRatio)
        => (~validation.isValid /\ signals = << >>)

(***************************************************************************)
(* SignalManager.createSignalWithIntelligentClustering on an empty         *)
(* repository: the classifier (SignalClusteringService.clusterSignal) is   *)
(* asked, then createSignalWithConflictPrevention stores the signal.  The  *)
(* three cluster scores and the market features are what                   *)
(* analyzeMarketForClustering and the score functions return; volatility,  *)
(* momentum, trend strength and volume strength are in tenths.             *)
(***************************************************************************)
ClusterConfidences == {55, 70, 80, 90}

ClusterScores == {40, 60}

RiskLevels == {"LOW", "MEDIUM", "HIGH"}

InitClustering ==
    /\ signals = << >>
    /\ marketData = [s \in Symbols |-> NoPrice]
    /\ protection = NoProtection
    /\ validation = NoValidation
    /\ analysis = NoAnalysis
    /\ \E confidence \in ClusterConfidences, scalpScore \in ClusterScores,
          dayScore \in ClusterScores, swingScore \in ClusterScores,
          riskLevel \in RiskLevels, volatility \in {10, 25}, momentum \in {3, 12},
          trendStrength \in {8, 20}, volumeStrength \in {5, 15},
          marketRegime \in {"TRENDING", "RANGING"} :
          clustering =
              [stage |-> "candidate",
               signal |-> [signalType |-> "BUY", entryPrice |-> 1000000,
                           confidence |-> confidence],
               scores |-> [SCALP |-> scalpScore, DAY |-> dayScore, SWING |-> swingScore],
               data |-> [riskLevel |-> riskLevel, volatility |-> volatility,
                         momentum |-> momentum, trendStrength |-> trendStrength,
                         volumeStrength |-> volumeStrength,
                         marketRegime |-> marketRegime]]
    /\ InitServices

\* the reduce over the three scores: a later type wins only with a higher score
BestCluster(scores) ==
    LET first == IF scores.DAY > scores.SCALP THEN "DAY" ELSE "SCALP"
    IN  IF scores.SWING > scores[first] THEN "SWING" ELSE first

GetOptimalTimeframe(tradeType, data) ==
    IF tradeType = "SCALP" THEN (IF data.volatility > 20 THEN "M1" ELSE "M5")
    ELSE IF tradeType = "DAY" THEN (IF data.momentum > 10 THEN "M5" ELSE "M15")
    ELSE IF tradeType = "SWING" THEN (IF data.trendStrength > 15 THEN "H1" ELSE "H4")
    ELSE "M15"

\* whether the features that define the trade type are strongly present
TypeBonus(tradeType, data) ==
    IF tradeType = "SCALP" THEN data.volatility > 15 /\ data.momentum > 10
    ELSE IF tradeType = "DAY" THEN data.momentum > 5 /\ data.volumeStrength > 10
    ELSE data.trendStrength > 10 /\ data.marketRegime = "TRENDING"

ClusterSignal(signal, scores, data) ==
    LET tradeType == BestCluster(scores)
    IN  [tradeType |-> tradeType,
         timeframe |-> GetOptimalTimeframe(tradeType, data),
         priority |-> CalculatePriority(signal.confidence, data.riskLevel,
                                        TypeBonus(tradeType, data))]

\* createSignalWithIntelligentClustering up to its call of
\* createSignalWithConflictPrevention
SignalClustered ==
    /\ clustering.stage = "candidate"
    /\ clustering' = [stage |-> "clustered", signal |-> clustering.signal,
                      scores |-> clustering.scores, data |-> clustering.data,
                      clusteringResult |-> ClusterSignal(clustering.signal, clustering.scores,
                                                         clustering.data)]
    /\ UNCHANGED << now, repoVars, risk, trackerVars, routeTasks, consVars, genVars,
                    isMonitoring, healthCheckInterval, monitoredSignals, lastAlertStates,
                    healthTasks, alerts, startVars, protection, validation, analysis,
                    ghost >>

\* createSignalWithConflictPrevention on the signal that carries the
\* clustering result: risk parameters, validation, no conflict,
\* categorizeSignal, createSignal
ClusteredSignalStored ==
    LET c == clustering.signal
        riskParams == CalculateEnhancedRiskParams(risk, "V10", c.signalType, c.entryPrice,
                                                  c.confidence)
        isValid == ValidateSignalRisk(risk, riskParams)
        categorizedSignal == CategorizeSignal(c.confidence)
    IN  /\ clustering.stage = "clustered"
        /\ clustering' =
              IF isValid
              THEN [stage |-> "stored", signal |-> c, scores |-> clustering.scores,
                    data |-> clustering.data,
                    clusteringResult |-> clustering.clusteringResult,
                    stored |-> categorizedSignal]
              ELSE [clustering EXCEPT !.stage = "rejected"]
        /\ signals' =
              IF isValid
              THEN Append(signals,
                       NewSignal("V10", c.signalType, "", c.entryPrice,
                                 riskParams.takeProfitPrice, riskParams.stopLossPrice,
                                 c.confidence, categorizedSignal.priority, NoTime,
                                 "AUTOMATED"))
              ELSE signals
        /\ UNCHANGED << now, signalHistory, marketData, risk, trackerVars, routeTasks,
                        consVars, genVars, isMonitoring, healthCheckInterval,
                        monitoredSignals, lastAlertStates, healthTasks, alerts, startVars,
                        protection, validation, analysis, ghost >>

NextClustering ==
    \/ SignalClustered
    \/ ClusteredSignalStored

SpecClustering == InitClustering /\ [][NextClustering]_vars

\* the confidence tier calculatePriority puts a confidence in
ConfidenceTier(confidence) ==
    IF confidence > 85 THEN 3 ELSE IF confidence > 75 THEN 2
    ELSE IF confidence < 60 THEN 0 ELSE 1

\* C38: with the trade type and the market features equal, a candidate of a
\* higher confidence tier gets a priority number that is not higher (not
\* worse, 1 being the best) than the one the classified candidate got.
HigherTierNeverWorsePriority ==
    clustering.stage \in {"clustered", "stored"}
        => \A confidence \in ClusterConfidences :
               ConfidenceTier(confidence) > ConfidenceTier(clustering.signal.confidence)
                   => ClusterSignal([clustering.signal EXCEPT !.confidence = confidence],
                                    clustering.scores, clustering.data).priority
                          <= clustering.clusteringResult.priority

\* C39: the trade type, the timeframe and the priority stored for an accepted
\* signal are those the classifier returned for it.
StoredCategoryIsClassifiers ==
    clustering.stage = "stored"
        => /\ clustering.stored.tradeType = clustering.clusteringResult.tradeType
           /\ clustering.stored.timeframe = clustering.clusteringResult.timeframe
           /\ clustering.stored.priority = clustering.clusteringResult.priority
           /\ signals[Len(signals)].priority = clustering.clusteringResult.priority

(***************************************************************************)
(* TechnicalAnalysisService.generateSignal on the indicator readings of    *)
(* one price history, followed by the confidence steps of                  *)
(* AutomatedSignalGenerator.generateSignals.  The readings are what the    *)
(* indicator functions return for the history: the RSI in points, the MACD *)
(* line in units of 0.0001 (its signal line is 0.8 times the line), the    *)
(* moving averages and the market structure as prices, the Bollinger bands *)
(* as the 20-period average plus and minus a half width, the two momentum  *)
(* percentages in units of 0.01 %, the ADX in points.  The current price   *)
(* is 100.0000.  Confidence is in points up to the time filter, whose      *)
(* result is in millionths of a point.                                     *)
(***************************************************************************)
AnalysisPrice == 1000000

RsiReadings == {28, 50, 75}

MacdReadings == {-100, 100}

Sma20Readings == {990000, 1010000}

Ema50Readings == {980000, 1020000}

BandHalfWidths == {11000, 40000}

TrendDirections == {-30, 30}

PriceChanges == {-20, 20}

Trends == {"UPTREND", "DOWNTREND", "SIDEWAYS"}

Supports == {980000, 996000}

Resistances == {1004000, 1020000}

Volatilities == {"HIGH", "LOW"}

AdxReadings == {20, 40}

Hours == {10, 22, 23}

DaysOfWeek == {0, 3, 5, 6}

InitTechnical ==
    /\ signals = << >>
    /\ marketData = [s \in Symbols |-> NoPrice]
    /\ protection = NoProtection
    /\ validation = NoValidation
    /\ clustering = NoClustering
    /\ \E rsi \in RsiReadings, macd \in MacdReadings, sma20 \in Sma20Readings,
          ema50 \in Ema50Readings, halfWidth \in BandHalfWidths,
          trendDirection \in TrendDirections, priceChange \in PriceChanges,
          trend \in Trends, support \in Supports, resistance \in Resistances,
          volatility \in Volatilities, adx \in AdxReadings,
          alignment \in BOOLEAN, volumeConfirmation \in BOOLEAN, isDetected \in BOOLEAN :
          analysis =
              [stage |-> "history",
               ind |-> [currentPrice |-> AnalysisPrice, rsi |-> rsi, macd |-> macd,
                        macdSignal |-> (macd * 8) \div 10,
                        sma20 |-> sma20, ema50 |-> ema50,
                        bollingerUpper |-> sma20 + halfWidth,
                        bollingerLower |-> sma20 - halfWidth,
                        trendDirection |-> trendDirection, priceChange |-> priceChange,
                        trend |-> trend, support |-> support, resistance |-> resistance,
                        volatility |-> volatility, adx |-> adx, alignment |-> alignment,
                        volumeConfirmation |-> volumeConfirmation,
                        isDetected |-> isDetected]]
    /\ InitServices

\* detectMarketRegime: the type and the recommended strategy follow from the ADX
MarketRegime(adx) ==
    LET type == IF adx > 25 THEN "TRENDING" ELSE "RANGING"
    IN  [type |-> type, strength |-> Min(100, adx * 2),
         recommendedStrategy |->
             IF type = "TRENDING" /\ adx > 30 THEN "BREAKOUT"
             ELSE IF type = "TRENDING" /\ adx > 20 THEN "PULLBACK"
             ELSE IF type = "RANGING" THEN "REVERSAL" ELSE "SCALP"]

BullishScore(ind) ==
    LET macdHistogram == ind.macd - ind.macdSignal
        bandRange == ind.bollingerUpper - ind.bollingerLower
    IN    (IF ind.rsi < 30 THEN 25 ELSE IF ind.rsi < 40 THEN 15 ELSE 0)
        + (IF ind.macd > ind.macdSignal /\ macdHistogram > 0 THEN 20 ELSE 0)
        + (IF ind.currentPrice > ind.sma20 /\ ind.currentPrice > ind.ema50
              /\ ind.sma20 > ind.ema50 THEN 15 ELSE 0)
        + (IF (ind.currentPrice - ind.bollingerLower) * 10 < bandRange THEN 20 ELSE 0)
        + (IF ind.trendDirection > 20 /\ ind.priceChange > 10 THEN 10 ELSE 0)
        + (IF ind.trend = "UPTREND" /\ ind.currentPrice > ind.support THEN 10 ELSE 0)

BearishScore(ind) ==
    LET macdHistogram == ind.macd - ind.macdSignal
        bandRange == ind.bollingerUpper - ind.bollingerLower
    IN    (IF ind.rsi < 40 THEN 0 ELSE IF ind.rsi > 70 THEN 25 ELSE IF ind.rsi > 60 THEN 15 ELSE 0)
        + (IF ind.macd > ind.macdSignal /\ macdHistogram > 0 THEN 0
           ELSE IF ind.macd < ind.macdSignal /\ macdHistogram < 0 THEN 20 ELSE 0)
        + (IF ind.currentPrice > ind.sma20 /\ ind.currentPrice > ind.ema50
              /\ ind.sma20 > ind.ema50 THEN 0
           ELSE IF ind.currentPrice < ind.sma20 /\ ind.currentPrice < ind.ema50
                   /\ ind.sma20 < ind.ema50 THEN 15 ELSE 0)
        + (IF (ind.currentPrice - ind.bollingerLower) * 10 < bandRange THEN 0
           ELSE IF (ind.currentPrice - ind.bollingerLower) * 10 > bandRange * 9 THEN 20
           ELSE 0)
        + (IF ind.trendDirection > 20 /\ ind.priceChange > 10 THEN 0
           ELSE IF ind.trendDirection < -20 /\ ind.priceChange < -10 THEN 10 ELSE 0)
        + (IF ind.trend = "UPTREND" /\ ind.currentPrice > ind.support THEN 0
           ELSE IF ind.trend = "DOWNTREND" /\ ind.currentPrice < ind.resistance THEN 10
           ELSE 0)

\* the adjustments of the advanced analysis, then the cap
AdjustConfidence(ind, signalType, confidence) ==
    LET marketRegime == MarketRegime(ind.adx)
        a1 == IF ind.alignment THEN confidence + 10 ELSE confidence
        a2 == IF marketRegime.type = "TRENDING" /\ marketRegime.strength > 70
              THEN a1 + 5 ELSE a1
        a3 == IF ind.volumeConfirmation THEN a2 + 5 ELSE a2
        a4 == IF ind.isDetected THEN a3 - 15 ELSE a3
        a5 == IF marketRegime.recommendedStrategy = "REVERSAL" /\ signalType # "HOLD"
                 /\ ((signalType = "BUY" /\ ind.rsi < 30)
                     \/ (signalType = "SELL" /\ ind.rsi > 70))
              THEN a4 + 5 ELSE a4
    IN  Min(a5, 95)

GenerateSignal(ind) ==
    LET bullishScore == BullishScore(ind)
        bearishScore == BearishScore(ind)
        scoreDifference == Abs(bullishScore - bearishScore)
        scored == IF bullishScore > bearishScore /\ scoreDifference >= 20 THEN "BUY"
                  ELSE IF bearishScore > bullishScore /\ scoreDifference >= 20 THEN "SELL"
                  ELSE "HOLD"
        c0 == IF scored = "HOLD" THEN 30 + Max(bullishScore, bearishScore)
              ELSE Min(40 + scoreDifference, 85)
        confidence == IF ind.volatility = "HIGH" THEN Max(c0 - 15, 30) ELSE c0
        signalType == IF confidence < 70 THEN "HOLD" ELSE scored
        tpSl == CalculateTakeProfitStopLoss(ind.currentPrice, signalType, confidence,
                                            ind.support, ind.resistance, ind.volatility)
    IN  [signalType |-> signalType,
         confidence |-> AdjustConfidence(ind, signalType, confidence),
         takeProfitPrice |-> IF signalType = "HOLD" THEN NoPrice ELSE tpSl.takeProfitPrice,
         stopLossPrice |-> IF signalType = "HOLD" THEN NoPrice ELSE tpSl.stopLossPrice]

\* getCurrentSession: the activity level of an hour of the day (UTC)
Activity(hour) ==
    IF hour \in {8, 9, 10, 13, 14, 15, 16, 17, 20, 21} THEN "HIGH"
    ELSE IF hour \in {7, 11, 12, 18, 19, 22} THEN "MEDIUM" ELSE "LOW"

\* the confidence multiplier of the time filter, in millionths
ConfidenceMultiplier(hour, dayOfWeek) ==
    LET activity == Activity(hour)
        m0 == IF activity = "HIGH" THEN 1100 ELSE IF activity = "MEDIUM" THEN 1000 ELSE 800
        m1 == IF dayOfWeek = 0 \/ dayOfWeek = 6 THEN 900 ELSE 1000
        m2 == IF (dayOfWeek = 5 /\ hour >= 21) \/ (dayOfWeek = 0 /\ hour <= 21)
              THEN 850 ELSE 1000
    IN  (m0 * m1 * m2) \div 1000

\* the time-adjusted confidence with no upper limit
UncappedConfidence(confidence, hour, dayOfWeek) ==
    confidence * ConfidenceMultiplier(hour, dayOfWeek)

\* filterSignalByTime: adjustedConfidence, in millionths of a point
FilterSignalByTime(confidence, hour, dayOfWeek) ==
    Min(100 * 1000000, confidence * ConfidenceMultiplier(hour, dayOfWeek))

ShouldTradeAtTime(adjustedConfidence, hour) ==
    LET activity == Activity(hour)
        threshold == IF activity = "HIGH" THEN 70 ELSE IF activity = "MEDIUM" THEN 75 ELSE 85
    IN  IF hour >= 2 /\ hour <= 5 /\ adjustedConfidence < 90 * 1000000 THEN FALSE
        ELSE adjustedConfidence >= threshold * 1000000

\* generateSignals reads the stored history of a symbol and asks the analysis
AnalyseHistory ==
    /\ analysis.stage = "history"
    /\ analysis' = [stage |-> "analysed", ind |-> analysis.ind,
                    signalResult |-> GenerateSignal(analysis.ind)]
    /\ UNCHANGED << now, repoVars, risk, trackerVars, routeTasks, consVars, genVars,
                    isMonitoring, healthCheckInterval, monitoredSignals, lastAlertStates,
                    healthTasks, alerts, startVars, protection, validation, clustering,
                    ghost >>

\* generateSignals goes on with a result that is not HOLD and has a confidence
\* of 80 or more: the pattern boost, then the time filter, whose adjusted
\* confidence replaces the boosted one
EnhanceConfidence(strongPatterns, hour, dayOfWeek) ==
    LET signalResult == analysis.signalResult
        boosted == IF strongPatterns THEN Min(100, signalResult.confidence + 5)
                   ELSE signalResult.confidence
        adjustedConfidence == FilterSignalByTime(signalResult.confidence, hour, dayOfWeek)
    IN  /\ analysis.stage = "analysed"
        /\ signalResult.signalType # "HOLD"
        /\ signalResult.confidence >= 80
        /\ analysis' = [stage |-> "enhanced", ind |-> analysis.ind,
                        signalResult |-> signalResult, boosted |-> boosted,
                        enhancedConfidence |-> adjustedConfidence,
                        shouldTrade |-> ShouldTradeAtTime(adjustedConfidence, hour)]
        /\ UNCHANGED << now, repoVars, risk, trackerVars, routeTasks, consVars, genVars,
                        isMonitoring, healthCheckInterval, monitoredSignals,
                        lastAlertStates, healthTasks, alerts, startVars, protection,
                        validation, clustering, ghost >>

NextTechnical ==
    \/ AnalyseHistory
    \/ \E strongPatterns \in BOOLEAN, hour \in Hours, dayOfWeek \in DaysOfWeek :
          EnhanceConfidence(strongPatterns, hour, dayOfWeek)

SpecTechnical == InitTechnical /\ [][NextTechnical]_vars

\* the history of the scenario: RSI 28, a positive MACD histogram, the price
\* at the lower Bollinger band
OversoldAtLowerBand(ind) ==
    /\ ind.rsi = 28
    /\ ind.macd - ind.macdSignal > 0
    /\ (ind.currentPrice - ind.bollingerLower) * 10
           < ind.bollingerUpper - ind.bollingerLower

\* C32: for a history with RSI 28, a positive MACD histogram and the price at
\* the lower Bollinger band the generator returns BUY with a confidence of at
\* least 70, a stop-loss below the entry and a take-profit above it.
OversoldHistoryGivesBuy ==
    (analysis.stage = "analysed" /\ OversoldAtLowerBand(analysis.ind))
        => /\ analysis.signalResult.signalType = "BUY"
           /\ analysis.signalResult.confidence >= 70
           /\ analysis.signalResult.stopLossPrice < analysis.ind.currentPrice
           /\ analysis.ind.currentPrice < analysis.signalResult.takeProfitPrice

HEALTH_CHECK_INTERVAL == 1

TELEGRAM_THROTTLE_INTERVAL == 5

ProfitPercent(sig, currentPrice) ==
    PnlPercent(sig.signalType, sig.entryPrice, currentPrice)

AssessPriceAction(sig, currentPrice) ==
    LET percentChange == ProfitPercent(sig, currentPrice)
    IN  IF percentChange > 50 THEN "FAVORABLE"
        ELSE IF percentChange < -30 THEN "ADVERSE"
        ELSE "NEUTRAL"

\* in units of 1/2500, so that riskProximity * 25 is in units of 0.01 point
CalculateRiskProximity(sig, currentPrice) ==
    IF sig.stopLossPrice = NoPrice THEN 0
    ELSE LET slDistance == Abs(sig.entryPrice - sig.stopLossPrice)
             currentDistance == Abs(currentPrice - sig.stopLossPrice)
         IN  Max(0, 2500 - RoundDiv(2500 * currentDistance, slDistance))

\* trendAlignment and momentumStrength are computed from prices drawn with
\* Math.random (getRecentPrices), so they are inputs
CalculateSignalHealth(sig, currentPrice, trendAlignment, momentumStrength) ==
    LET priceAction == AssessPriceAction(sig, currentPrice)
        raw == 5000 + (IF trendAlignment THEN 3000 ELSE -2000)
                    + (momentumStrength - 50) * 50
                    + (IF priceAction = "FAVORABLE" THEN 2000
                       ELSE IF priceAction = "ADVERSE" THEN -2500 ELSE 0)
                    - CalculateRiskProximity(sig, currentPrice)
        healthScore == Max(0, Min(10000, raw))
    IN  [status |-> IF healthScore >= 7500 THEN "STRONG"
                    ELSE IF healthScore >= 5000 THEN "WEAKENING"
                    ELSE IF healthScore >= 2500 THEN "CRITICAL"
                    ELSE "INVALIDATED",
         healthScore |-> healthScore,
         currentPrice |-> currentPrice]

IsSignalInvalidated(profitPercent, health) ==
    \/ profitPercent < -250
    \/ health.healthScore < 2000
    \/ health.status = "INVALIDATED"

\* neither lastState nor health carries a signalType, so the fourth
\* condition (price moving against the signal) never holds
IsSignalWeakening(currentPrice, profitPercent, health, lastState) ==
    LET significantDrop == /\ lastState.peakProfit - profitPercent > 150
                           /\ lastState.peakProfit > 100
        healthDeterioration == lastState.healthScore - health.healthScore > 2000
        statusDowngrade == lastState.status = "STRONG" /\ health.status = "WEAKENING"
        lastPrice == IF lastState.lastPrice = NoPrice THEN currentPrice
                     ELSE lastState.lastPrice
        priceDirection == currentPrice - lastPrice
        signalType == "undefined"
        againstSignal == \/ signalType = "BUY" /\ priceDirection < 0
                         \/ signalType = "SELL" /\ priceDirection > 0
        meaningfulMove == Abs(priceDirection) * 1000 > 2 * lastPrice
    IN  /\ lastState.defined
        /\ \/ significantDrop
           \/ healthDeterioration
           \/ statusDowngrade
           \/ againstSignal /\ meaningfulMove

IsProfitDeteriorating(profitPercent, peakProfit) ==
    /\ ~(peakProfit < 200)
    /\ peakProfit - profitPercent > 250
    /\ profitPercent > 50

\* calculateDynamicRetestStopLoss: the stop quoted in WARNING and
\* PROFIT_PROTECTION alerts (profits in units of 0.01 %, so that the locked
\* profit is in units of 0.0001 %)
CalculateDynamicRetestStopLoss(sig, currentPrice, profitPercent, peakProfit) ==
    LET entryPrice == sig.entryPrice
        locked(share) == IF sig.signalType = "BUY"
                         THEN ScaleBy(entryPrice, 1000000 + peakProfit * share, 1000000)
                         ELSE ScaleBy(entryPrice, 1000000 - peakProfit * share, 1000000)
        buffered(buffer) == IF sig.signalType = "BUY"
                            THEN ScaleBp(entryPrice, 10000 + buffer)
                            ELSE ScaleBp(entryPrice, 10000 - buffer)
    IN  IF peakProfit > 500 THEN locked(75)
        ELSE IF peakProfit > 300 THEN locked(60)
        ELSE IF peakProfit > 150 THEN buffered(20)
        ELSE IF profitPercent > 50 THEN buffered(10)
        ELSE IF sig.signalType = "BUY" THEN ScaleBp(currentPrice, 9850)
        ELSE ScaleBp(currentPrice, 10150)

\* health.unrealizedPnL: the price difference in the signal's favour, in price
\* units of 0.0001 (not a percentage)
UnrealizedPnL(sig, currentPrice) ==
    IF sig.signalType = "BUY" THEN currentPrice - sig.entryPrice
    ELSE sig.entryPrice - currentPrice

\* getProfitTier, its argument in units of 0.01
GetProfitTier(profitPercent) ==
    IF profitPercent > 500 THEN "EXCELLENT"
    ELSE IF profitPercent > 200 THEN "GOOD"
    ELSE IF profitPercent > 100 THEN "BASIC"
    ELSE IF profitPercent > 30 THEN "SMALL"
    ELSE "NONE"

\* a throttle that does not let INVALIDATED health through
ThrottledWhateverStatus(health, lastState, at) ==
    /\ lastState.lastTelegramAlert # NoTime
    /\ at - lastState.lastTelegramAlert < TELEGRAM_THROTTLE_INTERVAL

\* the throttle of checkAndGenerateAlerts: never for INVALIDATED health
Throttled(health, lastState, at) ==
    /\ health.status # "INVALIDATED"
    /\ lastState.lastTelegramAlert # NoTime
    /\ at - lastState.lastTelegramAlert < TELEGRAM_THROTTLE_INTERVAL

\* the alert object handed to generateAlert; profitTier is the tier written
\* to the alert state together with it
TacticalAlert(id, alertType, sig, health, profitPercent, peakProfit, at) ==
    [signalId |-> id,
     alertType |-> alertType,
     urgency |-> IF alertType = "INVALIDATED" THEN "HIGH" ELSE "MEDIUM",
     stopLoss |-> IF alertType = "INVALIDATED" THEN NoPrice
                  ELSE CalculateDynamicRetestStopLoss(sig, health.currentPrice,
                                                      profitPercent, peakProfit),
     profitTier |-> GetProfitTier(UnrealizedPnL(sig, health.currentPrice) \div 100),
     timestamp |-> at]

LastAlertStateOf(id) ==
    IF id \in DOMAIN lastAlertStates THEN lastAlertStates[id] ELSE NoAlertState

SetAlertState(id, st) ==
    [k \in DOMAIN lastAlertStates \cup {id} |-> IF k = id THEN st ELSE lastAlertStates[k]]

\* updateSignalStateOnly: the alert times come from the entry as it is now
UpdateSignalStateOnly(id, health, peakProfit, lastAlertTime) ==
    LET lastState == LastAlertStateOf(id)
    IN  SetAlertState(id,
            [defined |-> TRUE, status |-> health.status, healthScore |-> health.healthScore,
             lastAlertTime |-> IF lastAlertTime # NoTime THEN lastAlertTime
                               ELSE lastState.lastAlertTime,
             lastTelegramAlert |-> lastState.lastTelegramAlert,
             peakProfit |-> peakProfit, lastPrice |-> health.currentPrice,
             lastProfitWarning |-> lastState.lastProfitWarning])

\* monitoredSignals.set
MonitorSet(mon, id) == IF IndexOf(mon, id) = 0 THEN Append(mon, id) ELSE mon

\* the loop of performHealthChecks goes on to its next await of getSignalById
HealthContinue(t) ==
    IF Len(t.todo) <= 1 THEN IdleHealth
    ELSE [IdleHealth EXCEPT !.stage = "fetch", !.todo = Tail(t.todo),
                            !.cur = t.todo[2]]

\* startMonitoring resumes after loadActiveSignals and sets the timer
MonitorLoaded ==
    /\ startTasks > 0
    /\ startTasks' = startTasks - 1
    /\ monitoredSignals' = GetActiveSignals
    /\ healthCheckInterval' = TRUE
    /\ timers' = timers + 1
    /\ UNCHANGED << now, repoVars, risk, trackerVars, routeTasks, consVars, genVars, calcVars,
                    isMonitoring, lastAlertStates, healthTasks, alerts, ghost >>

\* a minute passes and the timer fires: performHealthChecks starts, whether
\* or not the previous invocation has finished
HealthTimerFires ==
    LET i == FreeSlot(healthTasks)
    IN  /\ timers > 0
        /\ now + HEALTH_CHECK_INTERVAL <= MaxTime
        /\ i # 0
        /\ now' = now + HEALTH_CHECK_INTERVAL
        /\ healthTasks' =
              IF monitoredSignals = << >> THEN healthTasks
              ELSE [healthTasks EXCEPT ![i] =
                       [IdleHealth EXCEPT !.stage = "fetch", !.todo = monitoredSignals,
                                          !.cur = Head(monitoredSignals)]]
        /\ UNCHANGED << repoVars, risk, trackerVars, routeTasks, consVars, genVars,
                        calcVars, startVars,
                        isMonitoring, healthCheckInterval, monitoredSignals,
                        lastAlertStates, alerts, ghost >>

\* resumes after getSignalById: a signal that is no longer active leaves the
\* Map, otherwise the price is asked for
HealthFetched(i) ==
    LET t == healthTasks[i]
    IN  /\ t.stage = "fetch"
        /\ IF signals[t.cur].isActive
           THEN /\ healthTasks' = [healthTasks EXCEPT ![i] = [t EXCEPT !.stage = "assess"]]
                /\ UNCHANGED monitoredSignals
           ELSE /\ healthTasks' = [healthTasks EXCEPT ![i] = HealthContinue(t)]
                /\ monitoredSignals' = SelectSeq(monitoredSignals, LAMBDA id : id # t.cur)
        /\ UNCHANGED << now, repoVars, risk, trackerVars, routeTasks, consVars, genVars,
                        calcVars, startVars,
                        isMonitoring, healthCheckInterval, lastAlertStates, alerts, ghost >>

\* resumes with the price and the health: checkAndGenerateAlerts reads the
\* signal's alert state and the clock, then awaits getSignalById
HealthAssessed(i, currentPrice, trendAlignment, momentumStrength) ==
    LET t == healthTasks[i]
    IN  /\ t.stage = "assess"
        /\ healthTasks' = [healthTasks EXCEPT ![i] =
              IF currentPrice = NoPrice THEN HealthContinue(t)
              ELSE [t EXCEPT !.stage = "check",
                             !.health = CalculateSignalHealth(signals[t.cur], currentPrice,
                                            trendAlignment, momentumStrength),
                             !.lastState = LastAlertStateOf(t.cur),
                             !.at = now]]
        /\ UNCHANGED << now, repoVars, risk, trackerVars, routeTasks, consVars, genVars,
                        calcVars, startVars,
                        isMonitoring, healthCheckInterval, monitoredSignals,
                        lastAlertStates, alerts, ghost >>

\* resumes with the signal: throttle, the three conditions, and either the
\* alert handed to generateAlert or the silent update
HealthChecked(i) ==
    LET t == healthTasks[i]
        profitPercent == ProfitPercent(signals[t.cur], t.health.currentPrice)
        peakProfit == Max(t.lastState.peakProfit, profitPercent)
        throttled == Throttled(t.health, t.lastState, t.at)
        alertType ==
            IF IsSignalInvalidated(profitPercent, t.health) THEN "INVALIDATED"
            ELSE IF IsSignalWeakening(t.health.currentPrice, profitPercent, t.health,
                                      t.lastState)
            THEN "WARNING"
            ELSE IF /\ IsProfitDeteriorating(profitPercent, peakProfit)
                    /\ t.lastState.lastProfitWarning = NoTime
            THEN "PROFIT_PROTECTION"
            ELSE "NONE"
    IN  /\ t.stage = "check"
        /\ IF throttled \/ alertType = "NONE"
           THEN /\ lastAlertStates' = UpdateSignalStateOnly(t.cur, t.health, peakProfit,
                                                            t.lastState.lastAlertTime)
                /\ monitoredSignals' = MonitorSet(monitoredSignals, t.cur)
                /\ healthTasks' = [healthTasks EXCEPT ![i] = HealthContinue(t)]
                /\ UNCHANGED alerts
           ELSE /\ Len(alerts) < MaxAlerts
                /\ alerts' = Append(alerts, TacticalAlert(t.cur, alertType, signals[t.cur],
                                                           t.health, profitPercent,
                                                           peakProfit, t.at))
                /\ healthTasks' = [healthTasks EXCEPT ![i] =
                       [t EXCEPT !.stage = "send", !.alertType = alertType,
                                 !.peakProfit = peakProfit]]
                /\ UNCHANGED << lastAlertStates, monitoredSignals >>
        /\ UNCHANGED << now, repoVars, risk, trackerVars, routeTasks, consVars, genVars,
                        calcVars, startVars,
                        isMonitoring, healthCheckInterval, ghost >>

\* an alert whose delivery failed leaves no trace in the alert state
AlertDroppedOnFailure(i, delivered) ==
    LET t == healthTasks[i]
    IN  /\ t.stage = "send"
        /\ lastAlertStates' =
              IF delivered
              THEN SetAlertState(t.cur,
                      [defined |-> TRUE, status |-> t.health.status,
                       healthScore |-> t.health.healthScore,
                       lastAlertTime |-> t.at, lastTelegramAlert |-> t.at,
                       peakProfit |-> t.peakProfit, lastPrice |-> t.health.currentPrice,
                       lastProfitWarning |-> t.lastState.lastProfitWarning])
              ELSE lastAlertStates
        /\ monitoredSignals' = MonitorSet(monitoredSignals, t.cur)
        /\ healthTasks' = [healthTasks EXCEPT ![i] = HealthContinue(t)]
        /\ ghost' = [ghost EXCEPT !.sinkFailure = IF delivered THEN "none" ELSE "alert"]
        /\ UNCHANGED << now, repoVars, risk, trackerVars, routeTasks, consVars, genVars,
                        calcVars, startVars,
                        isMonitoring, healthCheckInterval, alerts >>

\* resumes after generateAlert, which has caught whatever the sink threw:
\* the alert time is written to the alert state
AlertHandedOver(i, delivered) ==
    LET t == healthTasks[i]
    IN  /\ t.stage = "send"
        /\ lastAlertStates' = SetAlertState(t.cur,
              [defined |-> TRUE, status |-> t.health.status,
               healthScore |-> t.health.healthScore,
               lastAlertTime |-> t.at, lastTelegramAlert |-> t.at,
               peakProfit |-> t.peakProfit, lastPrice |-> t.health.currentPrice,
               lastProfitWarning |-> IF t.alertType = "PROFIT_PROTECTION" THEN t.at
                                     ELSE t.lastState.lastProfitWarning])
        /\ monitoredSignals' = MonitorSet(monitoredSignals, t.cur)
        /\ healthTasks' = [healthTasks EXCEPT ![i] = HealthContinue(t)]
        /\ ghost' = [ghost EXCEPT !.sinkFailure = IF delivered THEN "none" ELSE "alert"]
        /\ UNCHANGED << now, repoVars, risk, trackerVars, routeTasks, consVars, genVars,
                        calcVars, startVars,
                        isMonitoring, healthCheckInterval, alerts >>

\* the same with the alert delivered
HealthSent(i) == AlertHandedOver(i, TRUE)

\* the server starts on a repository that holds one active manual signal
InitAlert ==
    /\ \E t \in SignalTypes :
          LET tpSl == CalculateTakeProfitStopLoss(1000000, t, 85, ScaleBp(1000000, 9800),
                                                  ScaleBp(1000000, 10200), "MEDIUM")
          IN  signals = << NewSignal("V10", t, "", 1000000, tpSl.takeProfitPrice,
                                     tpSl.stopLossPrice, 85, 3, NoTime, "MANUAL") >>
    /\ marketData = [s \in Symbols |-> 1000000]
    /\ protection = NoProtection
    /\ validation = NoValidation
    /\ analysis = NoAnalysis
    /\ clustering = NoClustering
    /\ InitServices

NextAlert ==
    \/ MonitorLoaded
    \/ HealthTimerFires
    \/ \E i \in 1..MaxHandlers : HealthFetched(i)
    \/ \E i \in 1..MaxHandlers, q \in AlertPrices \cup {NoPrice}, a \in BOOLEAN, m \in Momenta :
           HealthAssessed(i, q, a, m)
    \/ \E i \in 1..MaxHandlers : HealthChecked(i)
    \/ \E i \in 1..MaxHandlers : HealthSent(i)

SpecAlert == InitAlert /\ [][NextAlert]_vars

\* C5: for one signal, two alerts that are not INVALIDATED alerts are never
\* less than the throttle interval apart, even when health-check cycles
\* overlap.
AlertsThrottled ==
    \A a, b \in 1..Len(alerts) :
        (/\ a < b
         /\ alerts[a].signalId = alerts[b].signalId
         /\ alerts[a].alertType # "INVALIDATED"
         /\ alerts[b].alertType # "INVALIDATED")
            => Abs(alerts[b].timestamp - alerts[a].timestamp) >= TELEGRAM_THROTTLE_INTERVAL

\* checkAndGenerateAlerts of task i resumes after getSignalById
CheckResumes(i) == healthTasks[i].stage = "check" /\ healthTasks'[i] # healthTasks[i]

\* C17: a cycle that finds a signal's health status INVALIDATED emits an alert
\* of urgency HIGH for it in that same cycle, however recent the signal's
\* last alert is.
InvalidatedAlertsAtOnce ==
    [][\A i \in DOMAIN healthTasks :
          (CheckResumes(i) /\ healthTasks[i].health.status = "INVALIDATED")
             => /\ Len(alerts') = Len(alerts) + 1
                /\ alerts'[Len(alerts')].signalId = healthTasks[i].cur
                /\ alerts'[Len(alerts')].alertType = "INVALIDATED"
                /\ alerts'[Len(alerts')].urgency = "HIGH"
                /\ alerts'[Len(alerts')].timestamp = healthTasks[i].at]_vars

\* an INVALIDATED alert was emitted inside the throttle interval of an earlier
\* alert for the same signal
InvalidatedInsideThrottle ==
    \E a, b \in 1..Len(alerts) :
        /\ a < b
        /\ alerts[a].signalId = alerts[b].signalId
        /\ alerts[b].alertType = "INVALIDATED"
        /\ alerts[b].urgency = "HIGH"
        /\ alerts[b].timestamp >= alerts[a].timestamp
        /\ alerts[b].timestamp - alerts[a].timestamp < TELEGRAM_THROTTLE_INTERVAL

\* alert a is the alert that precedes alert b for the same signal
PreviousAlert(a, b) ==
    /\ a < b
    /\ alerts[a].signalId = alerts[b].signalId
    /\ \A c \in (a + 1)..(b - 1) : alerts[c].signalId # alerts[b].signalId

\* C18: no alert of urgency MEDIUM is emitted for a signal whose profit tier
\* is the tier recorded with the signal's previous alert.
MediumAlertsChangeTier ==
    \A a, b \in 1..Len(alerts) :
        (PreviousAlert(a, b) /\ alerts[b].urgency = "MEDIUM")
            => alerts[b].profitTier # alerts[a].profitTier

\* C34: a cycle that finds the health status INVALIDATED for a signal whose
\* recorded status is INVALIDATED already emits no alert: the INVALIDATED
\* alert belongs to the cycle in which the status became INVALIDATED.
InvalidatedAlertedOnce ==
    [][\A i \in DOMAIN healthTasks :
          (/\ CheckResumes(i)
           /\ healthTasks[i].health.status = "INVALIDATED"
           /\ LastAlertStateOf(healthTasks[i].cur).defined
           /\ LastAlertStateOf(healthTasks[i].cur).status = "INVALIDATED")
             => alerts' = alerts]_vars

\* C21: the peak profit tracked for an open signal never decreases from one
\* write of the signal's alert state to the next.
PeakProfitNeverDecreases ==
    [][\A id \in DOMAIN lastAlertStates :
          (id \in DOMAIN lastAlertStates' /\ signals[id].isActive)
             => lastAlertStates'[id].peakProfit >= lastAlertStates[id].peakProfit]_vars

\* checkAndGenerateAlerts of task i ends without an alert
SilentCheck(i) == CheckResumes(i) /\ healthTasks'[i].stage # "send"

\* C22: a cycle that emits no alert for a signal appends nothing to the alerts
\* sent, leaves the signal's last-alert and last-notification times as they
\* were, and records the current price and a peak that covers the current
\* profit.
SilentCycleKeepsAlertTimes ==
    [][\A i \in DOMAIN healthTasks :
          SilentCheck(i)
             => LET id == healthTasks[i].cur
                    before == LastAlertStateOf(id)
                    after == lastAlertStates'[id]
                IN  /\ alerts' = alerts
                    /\ after.lastAlertTime = before.lastAlertTime
                    /\ after.lastTelegramAlert = before.lastTelegramAlert
                    /\ after.lastPrice = healthTasks[i].health.currentPrice
                    /\ after.peakProfit >= ProfitPercent(signals[id],
                                               healthTasks[i].health.currentPrice)]_vars

(***************************************************************************)
(* The assistant and the two tick closers on the same signal: ticks beyond *)
(* the levels of the signal arrive while health checks are running.        *)
(***************************************************************************)
ClosingPrices == {1030000}

NextMonitorClose ==
    \/ MonitorLoaded
    \/ now < MaxCloseTime /\ HealthTimerFires
    \/ \E i \in 1..MaxHandlers : HealthFetched(i)
    \/ \E i \in 1..MaxHandlers, q \in ClosingPrices, a \in BOOLEAN, m \in Momenta :
           HealthAssessed(i, q, a, m)
    \/ \E i \in 1..MaxHandlers : HealthChecked(i)
    \/ \E i \in 1..MaxHandlers : HealthSent(i)
    \/ \E q \in ClosingPrices : ghost.ticks < MaxCloseTicks /\ DeliverTick("R_10", q)
    \/ \E i \in 1..MaxHandlers : TrackerClosed(i)
    \/ \E i \in 1..MaxHandlers : TrackerRecorded(i)
    \/ \E i \in 1..MaxHandlers : RouteScan(i)
    \/ \E i \in 1..MaxHandlers : RouteClosed(i)
    \/ LoadRead
    \/ LoadApply

SpecMonitorClose == InitAlert /\ [][NextMonitorClose]_vars

\* this step hands an alert for signal id to generateAlert, writes the alert
\* state of id, or puts id back into the monitored Map
AssistantWrites(id) ==
    \/ /\ Len(alerts') > Len(alerts)
       /\ alerts'[Len(alerts')].signalId = id
    \/ /\ id \in DOMAIN lastAlertStates'
       /\ lastAlertStates'[id] # LastAlertStateOf(id)
    \/ /\ IndexOf(monitoredSignals, id) = 0
       /\ IndexOf(monitoredSignals', id) # 0
       /\ startTasks' = startTasks

\* C29: the assistant emits no alert for and writes no alert or health state
\* of a signal that has already been closed, even when the closure happens
\* while the health check of that signal is in progress.
NoAssistantWriteForClosedSignal ==
    [][\A id \in 1..Len(signals) : AssistantWrites(id) => signals[id].isActive]_vars

(***************************************************************************)
(* The assistant and the SignalTracker with a notification sink that may   *)
(* fail on every call                                                      *)
(***************************************************************************)
NextSink ==
    \/ MonitorLoaded
    \/ now < MaxCloseTime /\ HealthTimerFires
    \/ \E i \in 1..MaxHandlers : HealthFetched(i)
    \/ \E i \in 1..MaxHandlers, q \in AlertPrices, a \in BOOLEAN, m \in Momenta :
           HealthAssessed(i, q, a, m)
    \/ \E i \in 1..MaxHandlers : HealthChecked(i)
    \/ \E i \in 1..MaxHandlers, d \in BOOLEAN : AlertHandedOver(i, d)
    \/ \E q \in ClosingPrices : ghost.ticks < MaxCloseTicks /\ DeliverTick("R_10", q)
    \/ \E i \in 1..MaxHandlers : TrackerClosed(i)
    \/ \E i \in 1..MaxHandlers, d \in BOOLEAN : ClosureNotified(i, d)
    \/ \E i \in 1..MaxHandlers : RouteScan(i)
    \/ \E i \in 1..MaxHandlers : RouteClosed(i)
    \/ LoadRead
    \/ LoadApply

SpecSink == InitAlert /\ [][NextSink]_vars

\* C31: a notification that fails neither undoes nor prevents the change
\* that triggered it: the alert state carries the time of the alert, the
\* closed row and its outcome are recorded, and the loop goes on.
SinkFailureKeepsStateChange ==
    [][/\ \A i \in DOMAIN healthTasks :
            (healthTasks[i].stage = "send" /\ healthTasks'[i].stage # "send"
                /\ ghost'.sinkFailure = "alert")
               => LET t == healthTasks[i]
                  IN  /\ t.cur \in DOMAIN lastAlertStates'
                      /\ lastAlertStates'[t.cur].lastAlertTime = t.at
                      /\ alerts' = alerts
                      /\ healthTasks'[i] = HealthContinue(t)
       /\ \A i \in DOMAIN tickHandlers :
            (tickHandlers[i].stage = "history" /\ tickHandlers'[i].stage # "history"
                /\ ghost'.sinkFailure = "closure")
               => LET h == tickHandlers[i]
                  IN  /\ signals' = signals
                      /\ ~signals[h.cur].isActive
                      /\ Len(signalHistory') = Len(signalHistory) + 1
                      /\ signalHistory'[Len(signalHistory')].signalId = h.cur]_vars

\* an alert whose delivery failed is the latest in the alert state
FailedAlertRecorded ==
    /\ ghost.sinkFailure = "alert"
    /\ alerts # << >>
    /\ LET a == alerts[Len(alerts)]
       IN  /\ a.signalId \in DOMAIN lastAlertStates
           /\ lastAlertStates[a.signalId].lastAlertTime = a.timestamp

(***************************************************************************)
(* The assistant started and stopped while it runs.  The server starts     *)
(* with the startMonitoring of the constructor awaiting loadActiveSignals. *)
(***************************************************************************)
\* startMonitoring up to its await of loadActiveSignals
StartMonitoring ==
    /\ ghost.starts < MaxStarts
    /\ ~isMonitoring
    /\ isMonitoring' = TRUE
    /\ startTasks' = startTasks + 1
    /\ ghost' = [ghost EXCEPT !.starts = @ + 1]
    /\ UNCHANGED << now, repoVars, risk, trackerVars, routeTasks, consVars, genVars, calcVars,
                    healthCheckInterval, monitoredSignals, lastAlertStates, healthTasks,
                    alerts, timers >>

\* stopMonitoring: the timer whose handle is in healthCheckInterval is cleared
StopMonitoring ==
    /\ isMonitoring
    /\ timers' = IF healthCheckInterval THEN timers - 1 ELSE timers
    /\ healthCheckInterval' = FALSE
    /\ isMonitoring' = FALSE
    /\ UNCHANGED << now, repoVars, risk, trackerVars, routeTasks, consVars, genVars, calcVars,
                    monitoredSignals, lastAlertStates, healthTasks, alerts, startTasks,
                    ghost >>

NextStartStop ==
    \/ StartMonitoring
    \/ StopMonitoring
    \/ MonitorLoaded
    \/ now < MaxCloseTime /\ HealthTimerFires
    \/ \E i \in 1..MaxHandlers : HealthFetched(i)
    \/ \E i \in 1..MaxHandlers, q \in AlertPrices, a \in BOOLEAN, m \in Momenta :
           HealthAssessed(i, q, a, m)
    \/ \E i \in 1..MaxHandlers : HealthChecked(i)
    \/ \E i \in 1..MaxHandlers : HealthSent(i)

SpecStartStop == InitAlert /\ [][NextStartStop]_vars

\* C30: while the assistant is stopped no health-check cycle starts, also
\* when stop was called while the start-up was loading the signals, and
\* there is never more than one health-check timer.
StoppedAssistantIsQuiet ==
    /\ [][~isMonitoring => now' = now]_vars
    /\ [](timers <= 1)

(***************************************************************************)
(* The assistant beside the signal generator: the server starts on an      *)
(* empty repository, the generator creates signals while the assistant     *)
(* loads its Map and runs its health checks.                               *)
(***************************************************************************)
NextMonitorNew ==
    \/ MonitorLoaded
    \/ now < MaxCloseTime /\ HealthTimerFires
    \/ \E i \in 1..MaxHandlers : HealthFetched(i)
    \/ \E i \in 1..MaxHandlers, q \in AlertPrices, a \in BOOLEAN, m \in Momenta :
           HealthAssessed(i, q, a, m)
    \/ \E i \in 1..MaxHandlers : HealthChecked(i)
    \/ \E i \in 1..MaxHandlers : HealthSent(i)
    \/ ghost.cycles < MaxNewCycles /\ GenScheduled(TRUE)
    \/ \E i \in 1..MaxHandlers, t \in SignalTypes, c \in GenConfidences :
           GenCandidate(i, t, c, 1000000, "MEDIUM", FALSE)
    \/ \E i \in 1..MaxHandlers : GenConflictsChecked(i)
    \/ \E i \in 1..MaxHandlers : GenDeactivated(i)
    \/ \E i \in 1..MaxHandlers : GenStored(i)

SpecMonitorNew == Init /\ [][NextMonitorNew]_vars

\* C35: when a health-check cycle starts, every active signal of the
\* repository, also one created after the assistant has started, is among
\* the signals the cycle checks.
NewSignalsJoinHealthChecks ==
    [][now' # now =>
          \A id \in 1..Len(signals) :
              signals[id].isActive => id \in SeqToSet(monitoredSignals)]_vars

(***************************************************************************)
(* The assistant on a BUY signal whose price peaks at +6 % and retraces to *)
(* +4 %                                                                    *)
(***************************************************************************)
ProfitPrices == {1060000, 1040000}

InitProfit ==
    /\ LET tpSl == CalculateTakeProfitStopLoss(1000000, "BUY", 85, ScaleBp(1000000, 9800),
                                                ScaleBp(1000000, 10200), "MEDIUM")
       IN  signals = << NewSignal("V10", "BUY", "", 1000000, tpSl.takeProfitPrice,
                                  tpSl.stopLossPrice, 85, 3, NoTime, "MANUAL") >>
    /\ marketData = [s \in Symbols |-> 1000000]
    /\ protection = NoProtection
    /\ validation = NoValidation
    /\ analysis = NoAnalysis
    /\ clustering = NoClustering
    /\ InitServices

NextProfit ==
    \/ MonitorLoaded
    \/ HealthTimerFires
    \/ \E i \in 1..MaxHandlers : HealthFetched(i)
    \/ \E i \in 1..MaxHandlers, q \in ProfitPrices \cup {NoPrice}, a \in BOOLEAN, m \in Momenta :
           HealthAssessed(i, q, a, m)
    \/ \E i \in 1..MaxHandlers : HealthChecked(i)
    \/ \E i \in 1..MaxHandlers : HealthSent(i)

SpecProfit == InitProfit /\ [][NextProfit]_vars

\* task i is about to check a BUY signal entered at 100 whose recorded peak
\* profit is 6 % and whose price has come back from there to 4 % profit,
\* outside the throttle interval
RetracedFromPeak(i) ==
    LET t == healthTasks[i]
    IN  /\ t.stage = "check"
        /\ signals[t.cur].signalType = "BUY"
        /\ signals[t.cur].entryPrice = 1000000
        /\ t.lastState.peakProfit = 600
        /\ t.lastState.lastPrice = 1060000
        /\ ProfitPercent(signals[t.cur], t.health.currentPrice) = 400
        /\ ~Throttled(t.health, t.lastState, t.at)

\* C16: for a BUY signal with entry 100 whose peak profit reached 6 % and
\* whose price retraces to 4 % profit, the check of that transition emits
\* exactly one alert, of type PROFIT_PROTECTION, recommending a stop-loss of
\* entry * 1.045.
RetraceEmitsProfitProtection ==
    [][\A i \in DOMAIN healthTasks :
          (RetracedFromPeak(i) /\ CheckResumes(i))
             => /\ Len(alerts') = Len(alerts) + 1
                /\ alerts'[Len(alerts')].signalId = healthTasks[i].cur
                /\ alerts'[Len(alerts')].alertType = "PROFIT_PROTECTION"
                /\ alerts'[Len(alerts')].stopLoss = 1045000]_vars

(***************************************************************************)
(* The two stop calculators of the assistant as functions of a recorded    *)
(* peak and a price.  Profits are in units of 0.01 %, so a locked share of *)
(* a peak is in units of 0.0001 %.                                         *)
(***************************************************************************)
PROFIT_DETERIORATION_THRESHOLD == 100

\* calculateProfitProtection; signalStatePeak is the peakProfitPercent of the
\* signal's entry in signalStates, NoPnl when there is no entry
CalculateProfitProtection(sig, signalStatePeak, currentPrice) ==
    LET entryPrice == sig.entryPrice
        currentProfitPercent == PnlPercent(sig.signalType, entryPrice, currentPrice)
        peakProfitPercent == IF signalStatePeak # NoPnl
                             THEN Max(signalStatePeak, currentProfitPercent)
                             ELSE currentProfitPercent
        drawdownFromPeak == peakProfitPercent - currentProfitPercent
        locked(share) == IF sig.signalType = "BUY"
                         THEN ScaleBy(entryPrice, 1000000 + peakProfitPercent * share, 1000000)
                         ELSE ScaleBy(entryPrice, 1000000 - peakProfitPercent * share, 1000000)
        breakeven(plus) == IF sig.signalType = "BUY"
                           THEN ScaleBp(entryPrice, 10000 + plus)
                           ELSE ScaleBp(entryPrice, 10000 - plus)
        result(tier, stop, protect) ==
            [shouldProtect |-> protect, recommendedStopLoss |-> stop, profitTier |-> tier,
             currentProfitPercent |-> currentProfitPercent,
             peakProfitPercent |-> peakProfitPercent,
             drawdownFromPeak |-> drawdownFromPeak]
    IN  IF peakProfitPercent >= 500
        THEN result("HUGE", locked(75),
                    \/ drawdownFromPeak > PROFIT_DETERIORATION_THRESHOLD
                    \/ currentProfitPercent * 100 < peakProfitPercent * 75)
        ELSE IF peakProfitPercent >= 300
        THEN result("LARGE", locked(60),
                    \/ drawdownFromPeak > PROFIT_DETERIORATION_THRESHOLD
                    \/ currentProfitPercent * 100 < peakProfitPercent * 60)
        ELSE IF peakProfitPercent >= 200
        THEN result("MEDIUM", breakeven(100), currentProfitPercent < 100)
        ELSE IF peakProfitPercent >= 100
        THEN result("SMALL", breakeven(30), currentProfitPercent < 50)
        ELSE result("NONE", NoPrice, FALSE)

RecordedPeaks == {NoPnl, 0, 100, 200, 300, 500, 600}

ProtectionPrices == {1000000, 1004000, 1049000, 1060000}

\* one signal entered at 100, a recorded peak and a price
InitProtection ==
    /\ \E t \in SignalTypes :
          signals = << NewSignal("V10", t, "", 1000000, NoPrice, NoPrice, 85, 3, NoTime,
                                 "MANUAL") >>
    /\ marketData = [s \in Symbols |-> 1000000]
    /\ \E r \in RecordedPeaks, q \in ProtectionPrices :
          protection = [NoProtection EXCEPT !.recorded = r, !.currentPrice = q]
    /\ validation = NoValidation
    /\ analysis = NoAnalysis
    /\ clustering = NoClustering
    /\ InitServices

\* a caller asks calculateProfitProtection
ProtectionQuery ==
    /\ protection.rec = NoRecommendation
    /\ protection' = [protection EXCEPT
           !.rec = CalculateProfitProtection(signals[1], protection.recorded,
                                             protection.currentPrice)]
    /\ UNCHANGED << now, repoVars, risk, trackerVars, routeTasks, consVars, genVars,
                    isMonitoring, healthCheckInterval, monitoredSignals, lastAlertStates,
                    healthTasks, alerts, startVars, validation, analysis, clustering, ghost >>

\* the peak checkAndGenerateAlerts passes on: the recorded one or the current
\* profit, whichever is higher
AlertPeakProfit(recorded, profitPercent) ==
    Max(IF recorded = NoPnl THEN 0 ELSE recorded, profitPercent)

\* checkAndGenerateAlerts asks calculateDynamicRetestStopLoss
RetestStopQuery ==
    LET profitPercent == ProfitPercent(signals[1], protection.currentPrice)
    IN  /\ protection.retestStop = NoPrice
        /\ protection' = [protection EXCEPT
               !.retestStop = CalculateDynamicRetestStopLoss(signals[1],
                                  protection.currentPrice, profitPercent,
                                  AlertPeakProfit(protection.recorded, profitPercent))]
        /\ UNCHANGED << now, repoVars, risk, trackerVars, routeTasks, consVars, genVars,
                        isMonitoring, healthCheckInterval, monitoredSignals,
                        lastAlertStates, healthTasks, alerts, startVars, validation, analysis,
                        clustering, ghost >>

NextProtection ==
    \/ ProtectionQuery
    \/ RetestStopQuery

SpecProtection == InitProtection /\ [][NextProtection]_vars

\* the profit the tier of a recommendation locks in, in units of 0.0001 %
LockedProfit(rec) ==
    IF rec.profitTier = "HUGE" THEN rec.peakProfitPercent * 75
    ELSE IF rec.profitTier = "LARGE" THEN rec.peakProfitPercent * 60
    ELSE IF rec.profitTier = "MEDIUM" THEN 10000
    ELSE IF rec.profitTier = "SMALL" THEN 3000
    ELSE 0

\* C19: protection is recommended only when the current profit is below the
\* profit locked by the tier that the peak profit selects.
ProtectsOnlyBelowLockedProfit ==
    protection.rec.shouldProtect
        => protection.rec.currentProfitPercent * 100 < LockedProfit(protection.rec)

\* C20: the stop quoted by the assistant follows the peak profit with
\* inclusive thresholds: from 5 % it locks 75 % of the peak, from 3 % 60 % of
\* the peak, from 2 % it is breakeven + 1 %, from 1 % breakeven + 0.3 %.
StopFollowsPeakTiers ==
    LET sig == signals[1]
        peak == AlertPeakProfit(protection.recorded, ProfitPercent(sig, protection.currentPrice))
        \* entry moved in the signal's favour by x, in units of 0.0001 %
        beyond(x) == IF sig.signalType = "BUY"
                     THEN ScaleBy(sig.entryPrice, 1000000 + x, 1000000)
                     ELSE ScaleBy(sig.entryPrice, 1000000 - x, 1000000)
    IN  (protection.retestStop # NoPrice /\ peak >= 100)
            => protection.retestStop =
                  (IF peak >= 500 THEN beyond(peak * 75)
                   ELSE IF peak >= 300 THEN beyond(peak * 60)
                   ELSE IF peak >= 200 THEN beyond(10000)
                   ELSE beyond(3000))

====
